---- MODULE Spec2Model ----
(***************************************************************************)
(* Verification model of the PriceTax-AI ledger pipeline:                  *)
(*   contabilParser.ts  (monetary token parser, ledger line parser)        *)
(*   normalizeBase.ts   (classification normalizer, row normalizer)        *)
(*   kpiEngine.ts       (total reconciliator, period KPI aggregator)       *)
(*   exactTruth.ts      (exact totals, outlier filter)                     *)
(*   analyzeEngine.ts   (cross-file aggregator)                            *)
(*                                                                         *)
(* Text is modelled at character level: a TLA+ string is the sequence of   *)
(* its characters (Len, Head, Tail, SubSeq, \o apply to it).               *)
(* Amounts are exact decimal fixed-point numbers in thousandths            *)
(* ("millis"): a record [neg, mag] whose mag is a little-endian sequence   *)
(* of decimal digits.  JavaScript doubles are modelled as exact reals; the *)
(* sign bit of a zero is kept (neg = TRUE, mag = <<>> is -0).              *)
(***************************************************************************)
EXTENDS Integers, Sequences, FiniteSets, TLC

VARIABLES
    pc,                \* position of the run inside the operation under study
    inp,               \* the arguments the operation was called with
    out,               \* what the operation returned
    lines,             \* parseContabilRowsFromText: the trimmed non-empty lines
    pos,               \* parseContabilRowsFromText: index of the next line
    currentGroup,      \* parseContabilRowsFromText: let currentGroup
    columnOrder,       \* parseContabilRowsFromText: let columnOrder
    pendingTotalLine,  \* parseContabilRowsFromText: let pendingTotalLine
    rows,              \* parseContabilRowsFromText: const rows
    stored             \* history: every line assigned to pendingTotalLine

vars == <<pc, inp, out, lines, pos, currentGroup, columnOrder,
          pendingTotalLine, rows, stored>>

parserVars == <<lines, pos, currentGroup, columnOrder, pendingTotalLine,
                rows, stored>>

\* null of an optional object; null of an optional string
NULL == [null |-> TRUE]
NullStr == "<null>"
\* String(x ?? "")
Str(x) == IF x = NullStr THEN "" ELSE x

(***************************************************************************)
(* Exact decimal arithmetic on naturals (little-endian digit sequences).   *)
(***************************************************************************)
RECURSIVE BNorm(_)
BNorm(a) ==
    IF a = <<>> THEN <<>>
    ELSE IF a[Len(a)] = 0 THEN BNorm(SubSeq(a, 1, Len(a) - 1)) ELSE a

RECURSIVE BFromInt(_)
BFromInt(n) == IF n = 0 THEN <<>> ELSE <<n % 10>> \o BFromInt(n \div 10)

RECURSIVE BToInt(_)
BToInt(a) == IF a = <<>> THEN 0 ELSE a[1] + 10 * BToInt(Tail(a))

RECURSIVE BAddC(_, _, _)
BAddC(a, b, c) ==
    IF a = <<>> /\ b = <<>> THEN (IF c = 0 THEN <<>> ELSE <<c>>)
    ELSE LET x == IF a = <<>> THEN 0 ELSE Head(a)
             y == IF b = <<>> THEN 0 ELSE Head(b)
             s == x + y + c
         IN  <<s % 10>> \o BAddC(IF a = <<>> THEN <<>> ELSE Tail(a),
                                 IF b = <<>> THEN <<>> ELSE Tail(b),
                                 s \div 10)

BAdd(a, b) == BAddC(a, b, 0)

\* -1, 0, 1 as a < b, a = b, a > b (both normalized)
RECURSIVE BCmpSameLen(_, _)
BCmpSameLen(a, b) ==
    IF a = <<>> THEN 0
    ELSE LET n == Len(a)
         IN  IF a[n] < b[n] THEN -1
             ELSE IF a[n] > b[n] THEN 1
             ELSE BCmpSameLen(SubSeq(a, 1, n - 1), SubSeq(b, 1, n - 1))

BCmp(a, b) ==
    IF Len(a) < Len(b) THEN -1
    ELSE IF Len(a) > Len(b) THEN 1
    ELSE BCmpSameLen(a, b)

BLt(a, b) == BCmp(a, b) = -1
BLe(a, b) == BCmp(a, b) # 1
BGt(a, b) == BCmp(a, b) = 1
BGe(a, b) == BCmp(a, b) # -1

\* a - b for a >= b
RECURSIVE BSubC(_, _, _)
BSubC(a, b, c) ==
    IF a = <<>> THEN <<>>
    ELSE LET y == IF b = <<>> THEN 0 ELSE Head(b)
             d == Head(a) - y - c
         IN  <<(d + 10) % 10>> \o BSubC(Tail(a),
                                        IF b = <<>> THEN <<>> ELSE Tail(b),
                                        IF d < 0 THEN 1 ELSE 0)

BSub(a, b) == BNorm(BSubC(a, b, 0))

\* a * k for a small natural k
RECURSIVE BMulC(_, _, _)
BMulC(a, k, c) ==
    IF a = <<>> THEN BFromInt(c)
    ELSE LET s == Head(a) * k + c
         IN  <<s % 10>> \o BMulC(Tail(a), k, s \div 10)

BMulS(a, k) == BNorm(BMulC(a, k, 0))

\* a * 10^k
RECURSIVE BShift(_, _)
BShift(a, k) == IF a = <<>> \/ k = 0 THEN a ELSE BShift(<<0>> \o a, k - 1)

\* floor(a / 10^k)
BUnshift(a, k) == IF Len(a) <= k THEN <<>> ELSE SubSeq(a, k + 1, Len(a))

\* the digit of the quotient for the partial remainder cur
RECURSIVE BDivCount(_, _, _)
BDivCount(b, cur, d) ==
    IF BLt(cur, b) THEN d
    ELSE CHOOSE r \in {BDivCount(b, c, d + 1) : c \in {BSub(cur, b)}} : TRUE

\* how many times b goes into cur (cur < 10 * b)
BDivDigit(b, cur) == BDivCount(b, cur, 0)

RECURSIVE BDivLoop(_, _, _, _, _)
BDivLoop(a, b, i, q, rem) ==
    IF i = 0 THEN << BNorm(q), rem >>
    ELSE CHOOSE r \in UNION {{BDivLoop(a, b, i - 1, <<d>> \o q, BSub(cur, BMulS(b, d)))
                                : d \in {BDivDigit(b, cur)}}
                             : cur \in {BNorm(<<a[i]>> \o rem)}} : TRUE

\* <<quotient, remainder>>
BDivMod(a, b) ==
    CHOOSE r \in {BDivLoop(x, y, Len(x), <<>>, <<>>) : x \in {a}, y \in {b}} : TRUE

BDiv(a, b) == BDivMod(a, b)[1]

(***************************************************************************)
(* Signed fixed-point amounts, in millis.                                  *)
(***************************************************************************)
Num(neg, mag) == [neg |-> neg, mag |-> mag]
Zero == Num(FALSE, <<>>)
IsZero(x) == x.mag = <<>>
Abs(x) == Num(FALSE, x.mag)
Neg(x) == Num(~x.neg, x.mag)
\* whole currency units -> amount
Units(n) == Num(n < 0, BShift(BFromInt(IF n < 0 THEN -n ELSE n), 3))
\* hundredths -> amount
Cents(n) == Num(n < 0, BShift(BFromInt(IF n < 0 THEN -n ELSE n), 1))

\* numeric comparison (-0 = 0)
NLt(x, y) ==
    IF IsZero(x) /\ IsZero(y) THEN FALSE
    ELSE IF x.neg /\ ~IsZero(x)
         THEN (IF y.neg /\ ~IsZero(y) THEN BLt(y.mag, x.mag) ELSE TRUE)
         ELSE (IF y.neg /\ ~IsZero(y) THEN FALSE ELSE BLt(x.mag, y.mag))
NEq(x, y) == (IsZero(x) /\ IsZero(y)) \/ (x.mag = y.mag /\ x.neg = y.neg)
NLe(x, y) == NLt(x, y) \/ NEq(x, y)
NGt(x, y) == NLt(y, x)
NGe(x, y) == NLe(y, x)

NAdd(x, y) ==
    IF x.neg = y.neg THEN Num(x.neg, BAdd(x.mag, y.mag))
    ELSE IF BGe(x.mag, y.mag)
         THEN (LET m == BSub(x.mag, y.mag)
               IN  Num(IF m = <<>> THEN FALSE ELSE x.neg, m))
         ELSE Num(y.neg, BSub(y.mag, x.mag))
NSub(x, y) == NAdd(x, Neg(y))
\* x * k for an integer k >= 0
NMulS(x, k) == Num(x.neg, BMulS(x.mag, k))

(***************************************************************************)
(* Character-level string helpers (JavaScript String methods).             *)
(***************************************************************************)
Digits == {"0", "1", "2", "3", "4", "5", "6", "7", "8", "9"}
IsDigit(c) == c \in Digits
IsSpace(c) == c \in {" ", "\t"}
DigitVal(c) ==
    CASE c = "0" -> 0 [] c = "1" -> 1 [] c = "2" -> 2 [] c = "3" -> 3
      [] c = "4" -> 4 [] c = "5" -> 5 [] c = "6" -> 6 [] c = "7" -> 7
      [] c = "8" -> 8 [] c = "9" -> 9

Ch(s, i) == SubSeq(s, i, i)
StartsWith(s, p) == Len(s) >= Len(p) /\ SubSeq(s, 1, Len(p)) = p
EndsWith(s, p) == Len(s) >= Len(p) /\ SubSeq(s, Len(s) - Len(p) + 1, Len(s)) = p
Slice(s, from) == IF from > Len(s) THEN "" ELSE SubSeq(s, from, Len(s))

\* String.prototype.indexOf, 1-based; 0 when absent
RECURSIVE IndexFrom(_, _, _)
IndexFrom(s, p, i) ==
    IF i + Len(p) - 1 > Len(s) THEN 0
    ELSE IF SubSeq(s, i, i + Len(p) - 1) = p THEN i
    ELSE IndexFrom(s, p, i + 1)
IndexOf(s, p) == IndexFrom(s, p, 1)
Includes(s, p) == IndexOf(s, p) > 0

\* s.replace(/[set]/g, "")
RECURSIVE RemoveChars(_, _)
RemoveChars(s, set) ==
    IF s = "" THEN ""
    ELSE (IF Head(s) \in set THEN "" ELSE Ch(s, 1)) \o RemoveChars(Tail(s), set)

\* s.replace(p, r) with a string pattern: the first occurrence only
ReplaceFirst(s, p, r) ==
    LET i == IndexOf(s, p)
    IN  IF i = 0 THEN s
        ELSE SubSeq(s, 1, i - 1) \o r \o Slice(s, i + Len(p))

RECURSIVE TrimLeft(_)
TrimLeft(s) == IF s # "" /\ IsSpace(Head(s)) THEN TrimLeft(Tail(s)) ELSE s
RECURSIVE TrimRight(_)
TrimRight(s) ==
    IF s # "" /\ IsSpace(Ch(s, Len(s))) THEN TrimRight(SubSeq(s, 1, Len(s) - 1)) ELSE s
Trim(s) == TrimRight(TrimLeft(s))

\* s.replace(/\s+/g, " ")
RECURSIVE CollapseSpaces(_)
CollapseSpaces(s) ==
    IF s = "" THEN ""
    ELSE IF IsSpace(Head(s))
         THEN " " \o CollapseSpaces(TrimLeft(s))
         ELSE Ch(s, 1) \o CollapseSpaces(Tail(s))

cleanSpaces(s) == Trim(CollapseSpaces(s))

\* number of leading characters of s that are digits
RECURSIVE DigitRun(_)
DigitRun(s) == IF s # "" /\ IsDigit(Head(s)) THEN 1 + DigitRun(Tail(s)) ELSE 0

AllDigits(s) == DigitRun(s) = Len(s)

\* a string of digits (most significant first) as a natural
RECURSIVE DigitsToBig(_)
DigitsToBig(s) ==
    IF s = "" THEN <<>> ELSE Append(DigitsToBig(Tail(s)), DigitVal(Head(s)))

PadRight3(f) == SubSeq(f \o "000", 1, 3)

(***************************************************************************)
(* Number(string) for decimal literals: "" is 0, digits with at most one   *)
(* "." are their value, anything else is NaN.  Texts of the model carry at *)
(* most three fractional digits, so the value is exact in millis.          *)
(***************************************************************************)
NaN == [nan |-> TRUE]
NumberJS(str) ==
    LET s  == Trim(str)
        i  == IndexOf(s, ".")
        ip == IF i = 0 THEN s ELSE SubSeq(s, 1, i - 1)
        fp == IF i = 0 THEN "" ELSE Slice(s, i + 1)
    IN  IF s = "" THEN Zero
        ELSE IF AllDigits(ip) /\ AllDigits(fp) /\ (ip # "" \/ fp # "")
        THEN Num(FALSE, BNorm(DigitsToBig(ip \o PadRight3(fp))))
        ELSE NaN

(***************************************************************************)
(* contabilParser.ts: parseMoneyBR                                         *)
(***************************************************************************)
Money(raw, value) == [raw |-> raw, value |-> value]

\* sign = -1 ?
parseMoneyBR_negative(raw) ==
    \/ (StartsWith(raw, "(") /\ EndsWith(raw, ")"))
    \/ EndsWith(raw, "-")
    \/ StartsWith(raw, "-")

parseMoneyBR_digits(raw) ==
    LET normalized == Trim(RemoveChars(RemoveChars(raw, {"(", ")"}), {"-"}))
    IN  ReplaceFirst(RemoveChars(normalized, {"."}), ",", ".")

parseMoneyBR(token) ==
    LET raw   == cleanSpaces(token)
        value == NumberJS(parseMoneyBR_digits(raw))
    IN  IF raw = "" THEN NULL
        ELSE IF value = NaN THEN NULL
        ELSE Money(raw, Num(parseMoneyBR_negative(raw), value.mag))


(***************************************************************************)
(* Tokens of the grammar moneyTokenRe:                                     *)
(*    \(? -? \d{1,3} (\.\d{3})* , \d{2} \)? -?                             *)
(* A token is kept with the grammar slots it was built from.               *)
(***************************************************************************)
MaxGroups == 1          \* bound: number of ".ddd" thousands groups
TokenDigits == {"0", "7"}

DigitStrings(n) ==
    LET RECURSIVE Build(_)
        Build(k) == IF k = 0 THEN {""}
                    ELSE {d \o t : d \in TokenDigits, t \in Build(k - 1)}
    IN  Build(n)

RECURSIVE ThousandsTails(_)
ThousandsTails(k) ==
    IF k = 0 THEN {""}
    ELSE {""} \cup {"." \o g \o t : g \in DigitStrings(3), t \in ThousandsTails(k - 1)}

IntegerParts ==
    {h \o t : h \in DigitStrings(1) \cup DigitStrings(2) \cup DigitStrings(3),
              t \in ThousandsTails(MaxGroups)}
    \cup {"1.234"}

MoneyTokenText(t) ==
    (IF t.lparen THEN "(" ELSE "") \o (IF t.lminus THEN "-" ELSE "")
    \o t.int \o "," \o t.frac
    \o (IF t.rparen THEN ")" ELSE "") \o (IF t.tminus THEN "-" ELSE "")

MoneyTokens ==
    [lparen : BOOLEAN, lminus : BOOLEAN, int : IntegerParts,
     frac : DigitStrings(2) \cup {"56"}, rparen : BOOLEAN, tminus : BOOLEAN]

(***************************************************************************)
(* Specification of the monetary token parser: one call of parseMoneyBR    *)
(* on a token of the grammar.                                              *)
(***************************************************************************)
IdleParser ==
    /\ lines = <<>> /\ pos = 0 /\ currentGroup = "OUTROS"
    /\ columnOrder = "SA_SANT_DEB_CRED" /\ pendingTotalLine = NULL
    /\ rows = <<>> /\ stored = <<>>

InitMoney ==
    /\ pc = "call"
    /\ inp \in MoneyTokens
    /\ out = NULL
    /\ IdleParser

CallParseMoneyBR ==
    /\ pc = "call"
    /\ out' = parseMoneyBR(MoneyTokenText(inp))
    /\ pc' = "returned"
    /\ UNCHANGED <<inp, parserVars>>

NextMoney == CallParseMoneyBR

SpecMoney == InitMoney /\ [][NextMoney]_vars


\* the decimal digits of a text, in order
RECURSIVE OnlyDigits(_)
OnlyDigits(s) ==
    IF s = "" THEN ""
    ELSE (IF IsDigit(Head(s)) THEN Ch(s, 1) ELSE "") \o OnlyDigits(Tail(s))

\* the digits of a token read as a decimal with two fractional digits
TokenMagnitude(t) == BNorm(BShift(DigitsToBig(OnlyDigits(MoneyTokenText(t))), 1))

\* C3 (as claimed): on every token of the grammar parseMoneyBR returns a
\* value (never null, never an exception) whose magnitude is the token's
\* digits read with two decimals and which is negative exactly when the
\* token is parenthesized, has a trailing minus or has a leading minus.
C3_SignCorrectOnGrammar ==
    pc = "returned" =>
        /\ out # NULL
        /\ out.value.mag = TokenMagnitude(inp)
        /\ out.value.neg = ((inp.lparen /\ inp.rparen) \/ inp.tminus \/ inp.lminus)

(***************************************************************************)
(* normalizeBase.ts: normalizeClassification                               *)
(* (kpiEngine.ts carries the same function without the no-op rule for a    *)
(* bare "1"/"2"/"3").                                                      *)
(***************************************************************************)
IsRoot(c) == c \in {"1", "2", "3"}

\* /^[1-3]\.\d/
MatchesDotted(raw) ==
    Len(raw) >= 3 /\ IsRoot(Ch(raw, 1)) /\ Ch(raw, 2) = "." /\ IsDigit(Ch(raw, 3))

\* /^([1-3])(\d)(\d)\.(\d+)$/
MatchesFused3(raw) ==
    /\ Len(raw) >= 5
    /\ IsRoot(Ch(raw, 1)) /\ IsDigit(Ch(raw, 2)) /\ IsDigit(Ch(raw, 3))
    /\ Ch(raw, 4) = "."
    /\ AllDigits(Slice(raw, 5))

\* /^([1-3])(\d)(\d)(\d)$/
MatchesFused4(raw) ==
    /\ Len(raw) = 4
    /\ IsRoot(Ch(raw, 1)) /\ IsDigit(Ch(raw, 2)) /\ IsDigit(Ch(raw, 3))
    /\ IsDigit(Ch(raw, 4))

normalizeClassification_fusedUndotted(input) ==
    LET raw == Trim(Str(input))
    IN  IF raw = "" THEN ""
        ELSE IF MatchesDotted(raw) THEN raw
        ELSE IF MatchesFused3(raw)
             THEN Ch(raw, 1) \o "." \o Ch(raw, 2) \o "." \o Ch(raw, 3) \o "." \o Slice(raw, 5)
        ELSE IF MatchesFused4(raw)
             THEN Ch(raw, 1) \o Ch(raw, 2) \o Ch(raw, 3) \o "." \o Ch(raw, 4)
        ELSE raw

normalizeClassification(input) ==
    LET raw == Trim(Str(input))
    IN  IF raw = "" THEN ""
        ELSE IF MatchesDotted(raw) THEN raw
        ELSE IF MatchesFused3(raw)
             THEN Ch(raw, 1) \o "." \o Ch(raw, 2) \o "." \o Ch(raw, 3) \o "." \o Slice(raw, 5)
        ELSE IF MatchesFused4(raw)
             THEN Ch(raw, 1) \o "." \o Ch(raw, 2) \o "." \o Ch(raw, 3) \o "." \o Ch(raw, 4)
        ELSE IF Len(raw) = 1 /\ IsRoot(raw) THEN raw
        ELSE raw

(***************************************************************************)
(* Specification of the classification normalizer: normalize an arbitrary  *)
(* text, then normalize the result again.                                  *)
(***************************************************************************)
MaxClsLen == 5          \* bound: length of the classification text
ClsAlphabet == {"1", "4", ".", " ", "a"}

RECURSIVE TextsUpTo(_, _)
TextsUpTo(alphabet, n) ==
    IF n = 0 THEN {""}
    ELSE LET shorter == TextsUpTo(alphabet, n - 1)
         IN  shorter \cup {c \o t : c \in alphabet, t \in {u \in shorter : Len(u) = n - 1}}

InitNorm ==
    /\ pc = "call"
    /\ inp \in TextsUpTo(ClsAlphabet, MaxClsLen) \cup {NullStr}
    /\ out = <<>>
    /\ IdleParser

CallNormalize ==
    /\ pc = "call"
    /\ out' = <<normalizeClassification(inp)>>
    /\ pc' = "once"
    /\ UNCHANGED <<inp, parserVars>>

CallNormalizeAgain ==
    /\ pc = "once"
    /\ out' = Append(out, normalizeClassification(out[1]))
    /\ pc' = "twice"
    /\ UNCHANGED <<inp, parserVars>>

NextNorm == CallNormalize \/ CallNormalizeAgain

SpecNorm == InitNorm /\ [][NextNorm]_vars

\* C4: classification normalization is idempotent: normalizing the result
\* of a normalization returns it unchanged, for every input text.
C4_NormalizeIdempotent == pc = "twice" => out[2] = out[1]

\* C4 witness: a fused four-digit code was re-segmented and then normalized again
C4_Witness == pc = "twice" /\ Trim(Str(inp)) = "1411" /\ out[1] = "1.4.1.1"


(***************************************************************************)
(* kpiEngine.ts: brRound (Math.round rounds a half towards +infinity)      *)
(***************************************************************************)
brRound(x) ==
    LET d0   == IF x.mag = <<>> THEN 0 ELSE x.mag[1]
        base == BNorm(BShift(BUnshift(x.mag, 1), 1))
        up   == BAdd(base, <<0, 1>>)
    IN  IF d0 = 0 THEN x
        ELSE IF (~x.neg /\ d0 >= 5) \/ (x.neg /\ d0 > 5) THEN Num(x.neg, up)
        ELSE Num(x.neg, base)

\* the amount a Brazilian-locale literal denotes
Amt(text) == parseMoneyBR(text).value

(***************************************************************************)
(* kpiEngine.ts: applyGluedFix; exactTruth.ts: applyGluedFixFromText       *)
(* Amounts reaching these functions are parsed tokens (hundredths), so     *)
(* n / 10 is exact in millis.                                              *)
(***************************************************************************)
GLUE_10M == 10000000
GLUE_20M == 20000000
GLUE_30M == 30000000
GLUE_40M == 40000000
GLUE_50M == 50000000
GLUE_FLOOR_200M == 200000000
GLUE_NOCTX_1B == 1000000000
\* 9_999_999_999
GLUE_ATIVO_CAP == Num(FALSE, BFromInt(999999999) \o <<9>> \o <<0, 0, 0>>)

NMax(x, y) == IF NLt(x, y) THEN y ELSE x
InBand(n, lo, hi) == NGe(n, Units(lo)) /\ NLt(n, Units(hi))

\* n / 10
NDiv10(n) == Num(n.neg, BUnshift(n.mag, 1))

\* fixed > ativo * 0.2 && fixed < ativo * 5
PlausibleVsAtivo(fixed, ativo) ==
    NGt(NMulS(fixed, 10), NMulS(ativo, 2)) /\ NLt(fixed, NMulS(ativo, 5))

applyGluedFix_ativoWideBand(title, raw, ativoTotal) ==
    LET n == Abs(raw)
        fixed == NSub(n, Units(GLUE_10M))
    IN  IF IsZero(raw) THEN Zero
        ELSE IF InBand(n, GLUE_10M, GLUE_30M) /\ NGt(fixed, Zero)
             THEN Num(raw.neg, fixed.mag)
        ELSE raw

applyGluedFix_divideAlways(title, raw, ativoTotal) ==
    LET n == Abs(raw)
    IN  IF IsZero(raw) THEN Zero
        ELSE IF InBand(n, GLUE_30M, GLUE_40M) THEN Num(raw.neg, NDiv10(n).mag)
        ELSE raw

applyGluedFix(title, raw, ativoTotal) ==
    LET n     == Abs(raw)
        ativo == Abs(ativoTotal)
        sub10 == NSub(n, Units(GLUE_10M))
        sub20 == NSub(n, Units(GLUE_20M))
        div10 == NDiv10(n)
    IN  IF IsZero(raw) THEN Zero
        ELSE IF title = "ATIVO" THEN
            IF /\ InBand(n, GLUE_10M, GLUE_20M)
               /\ NGt(sub10, Zero) /\ NLt(sub10, GLUE_ATIVO_CAP)
            THEN Num(raw.neg, sub10.mag)
            ELSE raw
        ELSE IF title = "PASSIVO" THEN
            IF /\ InBand(n, GLUE_30M, GLUE_40M)
               /\ (IsZero(ativo) \/ PlausibleVsAtivo(div10, ativo))
            THEN Num(raw.neg, div10.mag)
            ELSE IF ~IsZero(ativo)
                    /\ NGt(n, NMax(NMulS(ativo, 20), Units(GLUE_FLOOR_200M)))
            THEN Zero
            ELSE IF IsZero(ativo) /\ NGt(n, Units(GLUE_NOCTX_1B))
            THEN Zero
            ELSE IF /\ InBand(n, GLUE_20M, GLUE_30M)
                    /\ NGt(sub20, Zero) /\ NLt(sub20, Units(GLUE_50M))
            THEN Num(raw.neg, sub20.mag)
            ELSE IF /\ InBand(n, GLUE_10M, GLUE_20M)
                    /\ NGt(sub10, Zero) /\ NLt(sub10, Units(GLUE_50M))
            THEN Num(raw.neg, sub10.mag)
            ELSE raw
        ELSE raw

applyGluedFixFromText(title, raw, ativoTotal) ==
    LET n     == Abs(raw)
        ativo == Abs(ativoTotal)
        sub10 == NSub(n, Units(GLUE_10M))
        sub20 == NSub(n, Units(GLUE_20M))
        div10 == NDiv10(n)
    IN  IF IsZero(raw) THEN Zero
        ELSE IF title = "ATIVO" THEN
            IF InBand(n, GLUE_10M, GLUE_20M) /\ NGt(sub10, Zero)
            THEN Num(raw.neg, sub10.mag)
            ELSE raw
        ELSE IF /\ InBand(n, GLUE_30M, GLUE_40M)
                /\ (IsZero(ativo) \/ PlausibleVsAtivo(div10, ativo))
        THEN Num(raw.neg, div10.mag)
        ELSE IF ~IsZero(ativo)
                /\ NGt(n, NMax(NMulS(ativo, 20), Units(GLUE_FLOOR_200M)))
        THEN Zero
        ELSE IF IsZero(ativo) /\ NGt(n, Units(GLUE_NOCTX_1B))
        THEN Zero
        ELSE IF InBand(n, GLUE_20M, GLUE_30M) /\ NGt(sub20, Zero)
        THEN Num(raw.neg, sub20.mag)
        ELSE IF InBand(n, GLUE_10M, GLUE_20M) /\ NGt(sub10, Zero)
        THEN Num(raw.neg, sub10.mag)
        ELSE raw

(***************************************************************************)
(* Specification of the magnitude correction: one call of applyGluedFix    *)
(* or applyGluedFixFromText on a candidate amount, for either title, with  *)
(* or without a known assets total.                                        *)
(***************************************************************************)
FixMagnitudes ==
    {Amt(t) : t \in {
        "0,00", "0,01", "4.532.100,00", "5.196.986,85",
        "9.999.999,99", "10.000.000,00", "10.000.000,01",
        "14.532.100,00", "15.196.986,85",
        "19.999.999,99", "20.000.000,00", "20.000.000,01", "24.500.000,00",
        "29.999.999,99", "30.000.000,00", "30.000.000,01", "31.082.543,78",
        "39.999.999,99", "40.000.000,00", "40.000.000,01",
        "90.000.000,00", "200.000.000,00", "200.000.000,01",
        "1.000.000.000,00", "1.000.000.000,01", "10.010.000.000,00" }}

FixRaws == FixMagnitudes \cup {Neg(m) : m \in FixMagnitudes}

FixAtivoTotals ==
    {Amt(t) : t \in {
        "0,00", "600.000,00", "600.000,01", "4.500.000,00",
        "14.999.999,99", "15.000.000,00", "100.000.000,00",
        "(4.500.000,00)" }}

InitFix ==
    /\ pc = "call"
    /\ inp \in [title : {"ATIVO", "PASSIVO"}, raw : FixRaws,
                ativoTotal : FixAtivoTotals]
    /\ out = NULL
    /\ IdleParser

CallApplyGluedFix ==
    /\ pc = "call"
    /\ out' = applyGluedFix(inp.title, inp.raw, inp.ativoTotal)
    /\ pc' = "kpiEngine"
    /\ UNCHANGED <<inp, parserVars>>

CallApplyGluedFixFromText ==
    /\ pc = "call"
    /\ out' = applyGluedFixFromText(inp.title, inp.raw, inp.ativoTotal)
    /\ pc' = "exactTruth"
    /\ UNCHANGED <<inp, parserVars>>

NextFix == CallApplyGluedFix \/ CallApplyGluedFixFromText

SpecFix == InitFix /\ [][NextFix]_vars

FixReturned == pc \in {"kpiEngine", "exactTruth"}
LessTenMillion(raw) == Num(raw.neg, NSub(Abs(raw), Units(GLUE_10M)).mag)

\* C5 (as claimed): every assets candidate whose absolute value lies in
\* [10,000,000, 20,000,000) is corrected by subtracting exactly 10,000,000
\* with the sign preserved; assets values outside the band are unchanged.
C5_AssetsBandClosed ==
    (FixReturned /\ inp.title = "ATIVO") =>
        IF InBand(Abs(inp.raw), GLUE_10M, GLUE_20M)
        THEN out = LessTenMillion(inp.raw)
        ELSE NEq(out, inp.raw)

\* C5 (amended): an assets candidate whose absolute value lies strictly
\* between 10,000,000 and 20,000,000 is corrected by subtracting exactly
\* 10,000,000 with the sign preserved; every other assets value, the value
\* 10,000,000 itself included, is returned unchanged.
C5_AssetsBandOpen ==
    (FixReturned /\ inp.title = "ATIVO") =>
        IF /\ NGt(Abs(inp.raw), Units(GLUE_10M))
           /\ NLt(Abs(inp.raw), Units(GLUE_20M))
        THEN out = LessTenMillion(inp.raw)
        ELSE NEq(out, inp.raw)

\* C5 witness: 14,532,100.00 was corrected to 4,532,100.00
C5_Witness ==
    /\ FixReturned /\ inp.title = "ATIVO"
    /\ inp.raw = Amt("14.532.100,00") /\ out = Amt("4.532.100,00")

\* C6: a liabilities candidate whose absolute value lies in
\* [30,000,000, 40,000,000) is divided by 10 (sign preserved) exactly when
\* the assets total is unknown (0) or the tenth lies strictly between 0.2
\* times and 5 times the assets total; otherwise the tenth is not returned.
C6_LiabilitiesTenthGated ==
    (FixReturned /\ inp.title = "PASSIVO"
        /\ InBand(Abs(inp.raw), GLUE_30M, GLUE_40M)) =>
        LET tenth == Num(inp.raw.neg, BUnshift(inp.raw.mag, 1))
            a     == Abs(inp.ativoTotal)
            within == /\ NLt(NMulS(a, 2), NMulS(Abs(tenth), 10))
                      /\ NLt(Abs(tenth), NMulS(a, 5))
        IN  (out = tenth) <=> (IsZero(a) \/ within)

\* C6 witness: 31,082,543.78 with assets total 4,500,000 became 3,108,254.38
C6_Witness ==
    /\ FixReturned /\ inp.title = "PASSIVO"
    /\ inp.raw = Amt("31.082.543,78") /\ inp.ativoTotal = Amt("4.500.000,00")
    /\ brRound(out) = Amt("3.108.254,38")


(***************************************************************************)
(* normalizeBase.ts: NormalizedBaseRow; kpiEngine.ts: numFromAny,          *)
(* normalizeText.  Texts of the model are ASCII, on which NFD              *)
(* decomposition and the removal of combining marks change nothing.        *)
(***************************************************************************)
Row(period, code, classification, description, group, sa, sant, deb, cred, rawLine) ==
    [period |-> period, code |-> code, classification |-> classification,
     description |-> description, group |-> group,
     saldoAtual |-> sa, saldoAnterior |-> sant, debito |-> deb, credito |-> cred,
     rawLine |-> rawLine]

numFromAny(v) == IF v = NULL THEN Zero ELSE v.value

LowerCase == "abcdefghijklmnopqrstuvwxyz"
UpperCase == "ABCDEFGHIJKLMNOPQRSTUVWXYZ"
UpperOf == [c \in {Ch(LowerCase, i) : i \in 1..26} |-> Ch(UpperCase, IndexOf(LowerCase, c))]
RECURSIVE ToUpperCase(_)
ToUpperCase(s) ==
    IF s = "" THEN ""
    ELSE (IF Head(s) \in DOMAIN UpperOf THEN UpperOf[Head(s)] ELSE Ch(s, 1))
         \o ToUpperCase(Tail(s))

normalizeText(input) == Trim(CollapseSpaces(ToUpperCase(Str(input))))

(***************************************************************************)
(* kpiEngine.ts: pickTotal                                                 *)
(***************************************************************************)
PICK_MAXOK_FLOOR == 50000000
PICK_BONUS_TITLE == 1000
PICK_BONUS_CLASS == 200
PICK_BONUS_DIGIT == 50
PICK_LOG_CAP == 100

wantCls(title) == IF title = "ATIVO" THEN "1" ELSE "2"

\* String(classification ?? "").trim().replace(/\.$/, "")
clsStr(r) ==
    LET t == Trim(Str(r.classification))
    IN  IF EndsWith(t, ".") THEN SubSeq(t, 1, Len(t) - 1) ELSE t

descNorm(r) == normalizeText(r.description)

descIsJustClassToken(r, title) ==
    LET d == Trim(Str(r.description))
    IN  d = wantCls(title) \/ d = wantCls(title) \o "."

saldoRaw(r) == numFromAny(r.saldoAtual)

descIsExactTotal(d, title) ==
    IF title = "ATIVO"
    THEN d \in {"ATIVO", "TOTAL ATIVO", "ATIVO TOTAL", "TOTAL DO ATIVO"}
    ELSE d \in {"PASSIVO", "TOTAL PASSIVO", "PASSIVO TOTAL", "TOTAL DO PASSIVO"}

inByTitleDesc(r, title) ==
    LET d == descNorm(r)
    IN  /\ d # ""
        /\ \/ descIsExactTotal(d, title)
           \/ /\ title = "PASSIVO"
              /\ Includes(d, "PASSIVO")
              /\ (Includes(d, "PL") \/ Includes(d, "PATRIM"))

inByClass(r, title) == clsStr(r) = wantCls(title)
inByBrokenPdf(r, title) == clsStr(r) = "" /\ descIsJustClassToken(r, title)
inByGroup(r, title) == title = "PASSIVO" /\ ToUpperCase(Str(r.group)) = "PASSIVO"

\* rows.filter(pred), order kept
FilterRows(rs, title, Pred(_, _)) ==
    LET Keep(r) == Pred(r, title) IN SelectSeq(rs, Keep)

\* [...byTitleDesc, ...byClass, ...byBrokenPdf, ...byGroup]
candidatePool(rs, title) ==
    FilterRows(rs, title, inByTitleDesc) \o FilterRows(rs, title, inByClass)
        \o FilterRows(rs, title, inByBrokenPdf) \o FilterRows(rs, title, inByGroup)

\* {r, raw, fixed}
candidateOf(r, raw, title, ativoTotal) ==
    [r |-> r, raw |-> raw, fixed |-> applyGluedFix(title, raw, ativoTotal)]

\* pool.map(...).filter(...): the candidates whose fixed value is not zero
RECURSIVE mapCandidates(_, _, _)
mapCandidates(pool, title, ativoTotal) ==
    IF pool = <<>> THEN <<>>
    ELSE SelectSeq(<<candidateOf(Head(pool), saldoRaw(Head(pool)), title, ativoTotal)>>,
                   LAMBDA x : ~IsZero(x.fixed))
         \o mapCandidates(Tail(pool), title, ativoTotal)

pickCandidates(rs, title, ativoTotal) ==
    mapCandidates(candidatePool(rs, title), title, ativoTotal)

\* the candidates that are scored: for PASSIVO with a known assets total,
\* those with |fixed| <= max(ativo * 5, 50_000_000), or all when none is
keepOrAll(candidates, kept) == IF kept = <<>> THEN candidates ELSE kept

filterByMaxOk(candidates, title, ativoTotal) ==
    IF title = "PASSIVO" /\ ~IsZero(ativoTotal)
    THEN keepOrAll(candidates,
            SelectSeq(candidates,
                LAMBDA x : NLe(Abs(x.fixed),
                               NMax(NMulS(Abs(ativoTotal), 5), Units(PICK_MAXOK_FLOOR)))))
    ELSE candidates

pickFiltered(rs, title, ativoTotal) ==
    filterByMaxOk(pickCandidates(rs, title, ativoTotal), title, ativoTotal)

\* the textual part of score(x)
scoreBonus(x, title) ==
    (IF descIsExactTotal(descNorm(x.r), title) THEN PICK_BONUS_TITLE ELSE 0)
    + (IF clsStr(x.r) = wantCls(title) THEN PICK_BONUS_CLASS ELSE 0)
    + (IF descIsJustClassToken(x.r, title) THEN PICK_BONUS_DIGIT ELSE 0)

\* 10^(Math.min(100, Math.log10(|fixed| + 1) * 10) / 10) = min(|fixed| + 1, 10^10)
scoreMagnitude(x) ==
    LET cap == Num(FALSE, BShift(<<1>>, PICK_LOG_CAP \div 10 + 3))
        m   == NAdd(Abs(x.fixed), Units(1))
    IN  IF NLt(cap, m) THEN cap ELSE m

Min2(a, b) == IF a < b THEN a ELSE b

\* score(x) as its two parts
scoreKey(x, title) == [bonus |-> scoreBonus(x, title), mag |-> scoreMagnitude(x).mag]

\* score(a) > score(b), exactly:
\*   bonus_a + 10 log10(A) > bonus_b + 10 log10(B)  iff
\*   A * 10^(bonus_a / 10) > B * 10^(bonus_b / 10);
\* A and B lie in [1, 10^10], so exponents of 11 or more decide alone.
keyGreater(ka, kb) ==
    LET d == (ka.bonus - kb.bonus) \div 10
    IN  IF d >= 0 THEN BGt(BShift(ka.mag, Min2(d, 11)), kb.mag)
        ELSE BGt(ka.mag, BShift(kb.mag, Min2(-d, 11)))

scoreGreater(a, b, title) == keyGreater(scoreKey(a, title), scoreKey(b, title))

\* |‖fixed‖ - ativo| (relErr times ativo)
relErrTimesAtivo(x, ativo) == Abs(NSub(Abs(x.fixed), ativo))

PICK_RELERR_PCT == 35

\* first element of a stable sort: the first index no other index beats
FirstBest(n, Better(_, _)) ==
    CHOOSE i \in 1..n :
        /\ \A j \in 1..n : ~Better(j, i)
        /\ \A j \in 1..(i - 1) : Better(i, j)

\* filtered.map(relErr), as relErr times ativo
RECURSIVE relErrs(_, _)
relErrs(filtered, ativo) ==
    IF filtered = <<>> THEN <<>>
    ELSE <<relErrTimesAtivo(Head(filtered), ativo)>> \o relErrs(Tail(filtered), ativo)

\* filtered.map(score)
RECURSIVE scoreKeys(_, _)
scoreKeys(filtered, title) ==
    IF filtered = <<>> THEN <<>>
    ELSE <<scoreKey(Head(filtered), title)>> \o scoreKeys(Tail(filtered), title)

\* index of the first element of errs.sort((a, b) => a - b)
closestIndex(errs) ==
    FirstBest(Len(errs), LAMBDA i, j : NLt(errs[i], errs[j]))

\* index of the first element of the sort by descending score
highestIndex(keys) ==
    FirstBest(Len(keys), LAMBDA i, j : keyGreater(keys[i], keys[j]))

selectTotal(filtered, title, ativo, errs, best) ==
    IF /\ title = "PASSIVO" /\ ~IsZero(ativo)
       /\ NLt(NMulS(errs[best], 100), NMulS(ativo, PICK_RELERR_PCT))
    THEN filtered[best].r
    ELSE filtered[highestIndex(scoreKeys(filtered, title))].r

selectClosest(filtered, title, ativo, errs) ==
    selectTotal(filtered, title, ativo, errs, closestIndex(errs))

selectFiltered(filtered, title, ativo) ==
    selectClosest(filtered, title, ativo, relErrs(filtered, ativo))

selectFirst(filtered, title, ativo) == filtered[1].r

pickFrom(candidates, title, ativoTotal, Select(_, _, _)) ==
    IF candidates = <<>> THEN NULL
    ELSE Select(filterByMaxOk(candidates, title, ativoTotal), title, Abs(ativoTotal))

pickTotal_firstCandidate(rs, title, ativoTotal) ==
    pickFrom(pickCandidates(rs, title, ativoTotal), title, ativoTotal, selectFirst)

pickTotal(rs, title, ativoTotal) ==
    pickFrom(pickCandidates(rs, title, ativoTotal), title, ativoTotal, selectFiltered)


(***************************************************************************)
(* Specification of the total selection: one call of pickTotal on the rows *)
(* of a period, for either title, with or without a known assets total.    *)
(***************************************************************************)
MaxPickRows == 3        \* bound: rows of the period handed to pickTotal

PickRow(description, classification, group, saldoAtual) ==
    Row("2024", NullStr, classification, description, group,
        parseMoneyBR(saldoAtual), NULL, NULL, NULL, NullStr)

PickRows == {
    PickRow("Total do Ativo", NullStr, "ATIVO",  "5.196.986,85"),
    PickRow("1",              NullStr, "OUTROS", "15.196.986,85"),
    PickRow("Bens",           "1",     "ATIVO",  "20.000.000.000,00"),
    PickRow("Direitos",       "1.",    "ATIVO",  "30.000.000.000,00"),
    PickRow("Caixa",          "1",     "ATIVO",  "800.000,00"),
    PickRow("PASSIVO",        NullStr, "PASSIVO", "31.082.543,78"),
    PickRow("Fornecedores",   "2.1",   "PASSIVO", "4.400.000,00"),
    PickRow("2",              NullStr, "OUTROS",  "900.000,00"),
    PickRow("Passivo e PL",   "2",     "PASSIVO", "150.000.000,00"),
    PickRow("Emprestimos",    "2.1",   "PASSIVO", "0,00") }

Range(q) == {q[i] : i \in DOMAIN q}

\* sequences of at most n distinct elements of S
RECURSIVE DistinctSeqs(_, _)
DistinctSeqs(S, n) ==
    IF n = 0 THEN {<<>>}
    ELSE LET shorter == DistinctSeqs(S, n - 1)
         IN  shorter \cup UNION {{Append(q, r) : r \in S \ Range(q)} : q \in shorter}

PickAtivoTotals == {Amt("0,00"), Amt("4.500.000,00"), Amt("1.000.000,00")}

InitPick ==
    /\ pc = "call"
    /\ \E rs \in DistinctSeqs(PickRows, MaxPickRows) :
          \* pickTotal(rows, "ATIVO") is called without an assets total
          \/ inp = [title |-> "ATIVO", rows |-> rs, ativoTotal |-> Zero]
          \/ \E a \in PickAtivoTotals :
                inp = [title |-> "PASSIVO", rows |-> rs, ativoTotal |-> a]
    /\ out = NULL
    /\ IdleParser

CallPickTotal ==
    /\ pc = "call"
    /\ out' = pickTotal(inp.rows, inp.title, inp.ativoTotal)
    /\ pc' = "picked"
    /\ UNCHANGED <<inp, parserVars>>

NextPick == CallPickTotal

SpecPick == InitPick /\ [][NextPick]_vars

PickCands == pickCandidates(inp.rows, inp.title, inp.ativoTotal)
PickScored == pickFiltered(inp.rows, inp.title, inp.ativoTotal)
PickAtivo == Abs(inp.ativoTotal)
\* relErr(x) < 0.35
RelErrAccepted(x) ==
    NLt(NMulS(relErrTimesAtivo(x, PickAtivo), 100), NMulS(PickAtivo, PICK_RELERR_PCT))
AssetsKnown == inp.title = "PASSIVO" /\ NGt(inp.ativoTotal, Zero)
SomeAccepted == \E i \in DOMAIN PickCands : RelErrAccepted(PickCands[i])
\* the selection was made by the weighted score
ByScore == pc = "picked" /\ PickCands # <<>> /\ ~(AssetsKnown /\ SomeAccepted)

\* C7: liabilities selection with a known assets total (> 0) and at least
\* one candidate: if some candidate's relative error to the assets total is
\* below 0.35, the selected row is a candidate of smallest relative error
\* among all candidates; otherwise the selected row is a scored candidate
\* of highest weighted score.
C7_ClosestToAssetsOrScore ==
    (pc = "picked" /\ AssetsKnown) =>
        LET cands  == PickCands
            scored == PickScored
            err    == [i \in DOMAIN cands |-> relErrTimesAtivo(cands[i], PickAtivo)]
            ok     == {i \in DOMAIN cands : RelErrAccepted(cands[i])}
        IN  cands # <<>> =>
              IF ok # {}
              THEN \E i \in ok :
                      /\ cands[i].r = out
                      /\ \A j \in DOMAIN cands : NLe(err[i], err[j])
              ELSE \E i \in DOMAIN scored :
                      /\ scored[i].r = out
                      /\ \A j \in DOMAIN scored :
                              ~scoreGreater(scored[j], scored[i], inp.title)

\* C7 witness: closest-candidate selection beat a +1000 "PASSIVO" row
C7_Witness ==
    /\ pc = "picked" /\ AssetsKnown /\ SomeAccepted
    /\ Len(PickCands) >= 2
    /\ out.description = "Fornecedores"
    /\ \E i \in DOMAIN PickCands : PickCands[i].r.description = "PASSIVO"

HasTitleBonus(x) == descIsExactTotal(descNorm(x.r), inp.title)
HasClassBonus(x) == clsStr(x.r) = wantCls(inp.title)
HasDigitBonus(x) == descIsJustClassToken(x.r, inp.title)
\* C8: in the weighted-score fallback the selected candidate
\* has the exact "total X" phrasing whenever a scored candidate has it, is
\* never a bare-digit row when an equally phrased classification-root row
\* is scored, and has the largest corrected magnitude among the scored
\* candidates with the same textual bonuses.
C8_ScoreOrderUncapped ==
    ByScore =>
        LET scored == PickScored IN
        \E i \in DOMAIN scored :
            LET x == scored[i] IN
            /\ x.r = out
            /\ \A j \in DOMAIN scored :
                LET y == scored[j] IN
                /\ HasTitleBonus(y) => HasTitleBonus(x)
                /\ ~(/\ HasTitleBonus(y) = HasTitleBonus(x)
                     /\ HasClassBonus(y) /\ ~HasClassBonus(x) /\ HasDigitBonus(x))
                /\ scoreBonus(y, inp.title) = scoreBonus(x, inp.title)
                       => NLe(Abs(y.fixed), Abs(x.fixed))


(***************************************************************************)
(* contabilParser.ts: the line parser.  Lines are ASCII, so the accented   *)
(* alternatives of the header tests ("CÓDIGO", "DÉBITO", ...) never match  *)
(* and are left out.                                                       *)
(***************************************************************************)
\* .replace(/(,\d{2})(?=\d)/g, "$1 ")
RECURSIVE unglueAfterCents(_)
unglueAfterCents(s) ==
    IF s = "" THEN ""
    ELSE IF /\ Len(s) >= 4 /\ Ch(s, 1) = ","
            /\ IsDigit(Ch(s, 2)) /\ IsDigit(Ch(s, 3)) /\ IsDigit(Ch(s, 4))
         THEN SubSeq(s, 1, 3) \o " " \o unglueAfterCents(Slice(s, 4))
         ELSE Ch(s, 1) \o unglueAfterCents(Tail(s))

\* .replace(/(\))(?=\d)/g, "$1 ")
RECURSIVE unglueAfterParen(_)
unglueAfterParen(s) ==
    IF s = "" THEN ""
    ELSE IF Len(s) >= 2 /\ Ch(s, 1) = ")" /\ IsDigit(Ch(s, 2))
         THEN ") " \o unglueAfterParen(Tail(s))
         ELSE Ch(s, 1) \o unglueAfterParen(Tail(s))

unglueMoneyTokens(line) == CollapseSpaces(unglueAfterParen(unglueAfterCents(line)))

\* length of the greedy run (\.\d{3})* at the start of s
RECURSIVE ThousandsRun(_)
ThousandsRun(s) ==
    IF /\ Len(s) >= 4 /\ Ch(s, 1) = "."
       /\ IsDigit(Ch(s, 2)) /\ IsDigit(Ch(s, 3)) /\ IsDigit(Ch(s, 4))
    THEN 4 + ThousandsRun(Slice(s, 5))
    ELSE 0

\* length of the match of moneyTokenRe anchored at the start of s, 0 if none
moneyTokenAt(s) ==
    LET a == IF StartsWith(s, "(") THEN 1 ELSE 0
        b == IF StartsWith(Slice(s, a + 1), "-") THEN a + 1 ELSE a
        d == DigitRun(Slice(s, b + 1))
        g == b + d + ThousandsRun(Slice(s, b + d + 1))
        f == Slice(s, g + 1)
        e == g + 3
        h == IF StartsWith(Slice(s, e + 1), ")") THEN e + 1 ELSE e
    IN  IF /\ d \in 1..3
           /\ Len(f) >= 3 /\ Ch(f, 1) = "," /\ IsDigit(Ch(f, 2)) /\ IsDigit(Ch(f, 3))
        THEN (IF StartsWith(Slice(s, h + 1), "-") THEN h + 1 ELSE h)
        ELSE 0

\* line.match(moneyTokenRe) ?? []
RECURSIVE moneyMatches(_)
moneyMatches(s) ==
    IF s = "" THEN <<>>
    ELSE LET n == moneyTokenAt(s)
         IN  IF n > 0 THEN <<SubSeq(s, 1, n)>> \o moneyMatches(Slice(s, n + 1))
             ELSE moneyMatches(Tail(s))

detectSectionHeader(line) ==
    LET up == ToUpperCase(cleanSpaces(line))
    IN  IF up = "ATIVO" \/ StartsWith(up, "ATIVO ") THEN "ATIVO"
        ELSE IF up = "PASSIVO" \/ StartsWith(up, "PASSIVO ") THEN "PASSIVO"
        ELSE IF \/ up = "DRE" \/ StartsWith(up, "DRE ")
                \/ Includes(up, "DEMONSTRACAO DO RESULTADO")
                \/ Includes(up, "D.R.E")
                \/ Includes(up, "DEMONSTRATIVO DO RESULTADO")
        THEN "DRE"
        ELSE NullStr

isHeaderLine(line) ==
    LET up == ToUpperCase(cleanSpaces(line))
    IN  \/ Includes(up, "CODIGO") /\ Includes(up, "DESCRI") /\ Includes(up, "SALDO")
        \/ StartsWith(up, "EMPRESA") \/ StartsWith(up, "BALANCETE")
        \/ StartsWith(up, "C.N.P.J") \/ StartsWith(up, "CNPJ")
        \/ StartsWith(up, "PERIODO")
        \/ StartsWith(up, "CONSOLIDADO")

\* variant: every header that names the four columns selects the layout
\* [current, prior, debit, credit]
detectColumnOrderFromHeader_alwaysCurrentFirst(line) ==
    LET up == ToUpperCase(cleanSpaces(line))
    IN  IF /\ Includes(up, "SALDO") /\ Includes(up, "ANTERIOR") /\ Includes(up, "ATUAL")
           /\ Includes(up, "DEBITO") /\ Includes(up, "CREDITO")
        THEN "SA_SANT_DEB_CRED" ELSE NullStr

detectColumnOrderFromHeader(line) ==
    LET up     == ToUpperCase(cleanSpaces(line))
        iAtual == IndexOf(up, "ATUAL")
        iAnt   == IndexOf(up, "ANTERIOR")
        iDeb   == IndexOf(up, "DEBITO")
        iCred  == IndexOf(up, "CREDITO")
    IN  IF ~(Includes(up, "SALDO") /\ (iAnt > 0 \/ iAtual > 0)) THEN NullStr
        ELSE IF iAnt > 0 /\ iDeb > 0 /\ iCred > 0 /\ iAtual > 0
        THEN (IF iAnt < iDeb /\ iDeb < iCred /\ iCred < iAtual THEN "SANT_DEB_CRED_SA"
              ELSE IF iAtual < iAnt /\ iAnt < iDeb /\ iDeb < iCred THEN "SA_SANT_DEB_CRED"
              ELSE NullStr)
        ELSE NullStr

\* /^\s*(\d{1,6})\s+(.*)$/
extractLeadingCode(s) ==
    LET t == TrimLeft(s)
        d == DigitRun(t)
    IN  IF d \in 1..6 /\ Len(t) > d /\ IsSpace(Ch(t, d + 1))
        THEN [code |-> SubSeq(t, 1, d), rest |-> Trim(Slice(t, d + 1))]
        ELSE [code |-> NullStr, rest |-> Trim(s)]

\* /^(\d{1,6})\.(?=([123])(?:\.\d{1,3})+)(.*)$/
splitFusedCodeClassification(s) ==
    LET txt == cleanSpaces(s)
        d   == DigitRun(txt)
        m3  == Trim(Slice(txt, d + 2))
    IN  IF /\ d \in 1..6 /\ Len(txt) >= d + 4
           /\ Ch(txt, d + 1) = "."
           /\ Ch(txt, d + 2) \in {"1", "2", "3"}
           /\ Ch(txt, d + 3) = "."
           /\ IsDigit(Ch(txt, d + 4))
        THEN [code |-> SubSeq(txt, 1, d),
              rest |-> IF m3 # "" THEN m3 ELSE Trim(Slice(txt, d + 1))]
        ELSE [code |-> NullStr, rest |-> txt]

\* t is zero or more groups \.\d{1,3}
RECURSIVE IsDottedTail(_)
IsDottedTail(t) ==
    \/ t = ""
    \/ /\ Ch(t, 1) = "."
       /\ DigitRun(Slice(t, 2)) \in 1..3
       /\ IsDottedTail(Slice(t, 2 + DigitRun(Slice(t, 2))))

\* t matches \d{1,3}(?:\.\d{1,3})+ as a whole
IsDotted(t) ==
    /\ DigitRun(t) \in 1..3
    /\ Len(t) > DigitRun(t)
    /\ IsDottedTail(Slice(t, DigitRun(t) + 1))

IsWordChar(c) == c \in DOMAIN UpperOf \/ c \in {UpperOf[x] : x \in DOMAIN UpperOf}
                    \/ IsDigit(c) \/ c = "_"

\* the match of /\b(\d{1,3}(?:\.\d{1,3})+)\b/ in txt: <<start, length>> of
\* the leftmost, then longest, match; <<0, 0>> when there is none
matchLooseClassification(txt) ==
    LET n == Len(txt)
        Bounded(i, l) ==
            /\ i + l - 1 <= n
            /\ (i = 1 \/ ~IsWordChar(Ch(txt, i - 1)))
            /\ (i + l - 1 = n \/ ~IsWordChar(Ch(txt, i + l)))
            /\ IsDotted(SubSeq(txt, i, i + l - 1))
        M == {m \in (1..n) \X (1..n) : Bounded(m[1], m[2])}
    IN  IF M = {} THEN <<0, 0>>
        ELSE CHOOSE m \in M :
                \A k \in M : m[1] < k[1] \/ (m[1] = k[1] /\ m[2] >= k[2])

extractFirstClassification(s) ==
    LET txt == cleanSpaces(s)
        sp  == IndexOf(txt, " ")
        any == matchLooseClassification(txt)
        cls == SubSeq(txt, any[1], any[1] + any[2] - 1)
    IN  IF sp > 1 /\ IsDotted(SubSeq(txt, 1, sp - 1))
        THEN [classification |-> SubSeq(txt, 1, sp - 1), rest |-> Trim(Slice(txt, sp + 1))]
        ELSE IF any = <<0, 0>>
        THEN [classification |-> NullStr, rest |-> txt]
        ELSE [classification |-> cls, rest |-> cleanSpaces(ReplaceFirst(txt, cls, ""))]

\* variant: the first digit decides, whatever follows it
inferGroupByClassification_firstDigit(classification) ==
    IF classification = NullStr \/ Trim(Str(classification)) = "" THEN NullStr
    ELSE IF Ch(Trim(Str(classification)), 1) = "1" THEN "ATIVO"
    ELSE IF Ch(Trim(Str(classification)), 1) = "2" THEN "PASSIVO"
    ELSE IF Ch(Trim(Str(classification)), 1) = "3" THEN "DRE"
    ELSE NullStr

inferGroupByClassification(classification) ==
    LET cls == Trim(Str(classification))
    IN  IF classification = NullStr \/ classification = "" THEN NullStr
        ELSE IF ~(/\ cls # "" /\ Ch(cls, 1) \in {"1", "2", "3"}
                  /\ (Len(cls) = 1 \/ Ch(cls, 2) = "."))
        THEN NullStr
        ELSE IF Ch(cls, 1) = "1" THEN "ATIVO"
        ELSE IF Ch(cls, 1) = "2" THEN "PASSIVO"
        ELSE "DRE"

\* tokens.map(parseMoneyBR).filter(Boolean)
RECURSIVE parseAllMoney(_)
parseAllMoney(tokens) ==
    IF tokens = <<>> THEN <<>>
    ELSE LET m == parseMoneyBR(Head(tokens))
         IN  (IF m = NULL THEN <<>> ELSE <<m>>) \o parseAllMoney(Tail(tokens))

Columns(sa, sant, deb, cred) ==
    [saldoAtual |-> sa, saldoAnterior |-> sant, debito |-> deb, credito |-> cred]

\* parsed.slice(-4)
LastFour(parsed) ==
    IF Len(parsed) > 4 THEN SubSeq(parsed, Len(parsed) - 3, Len(parsed)) ELSE parsed

mapTail(tail, alt) ==
    IF Len(tail) = 0 THEN Columns(NULL, NULL, NULL, NULL)
    ELSE IF Len(tail) = 4
    THEN (IF alt THEN Columns(tail[4], tail[1], tail[2], tail[3])
          ELSE Columns(tail[1], tail[2], tail[3], tail[4]))
    ELSE IF Len(tail) = 3
    THEN (IF alt THEN Columns(NULL, tail[1], tail[2], tail[3])
          ELSE Columns(tail[1], tail[2], tail[3], NULL))
    ELSE IF Len(tail) = 2
    THEN (IF alt THEN Columns(tail[2], tail[1], NULL, NULL)
          ELSE Columns(tail[1], tail[2], NULL, NULL))
    ELSE Columns(tail[1], NULL, NULL, NULL)

\* variant: a line with fewer than three tokens fills no column
mapMoneyTokens_twoTokensEmpty(tokens, order) ==
    IF Len(tokens) < 3 THEN Columns(NULL, NULL, NULL, NULL)
    ELSE mapTail(LastFour(parseAllMoney(tokens)), order = "SANT_DEB_CRED_SA")

mapMoneyTokens(tokens, order) ==
    mapTail(LastFour(parseAllMoney(tokens)), order = "SANT_DEB_CRED_SA")

ContabilRow(rawLine, group, code, classification, description, cols) ==
    [rawLine |-> rawLine, group |-> group, code |-> code,
     classification |-> classification, description |-> description,
     saldoAtual |-> cols.saldoAtual, saldoAnterior |-> cols.saldoAnterior,
     debito |-> cols.debito, credito |-> cols.credito]

\* the loop state of parseContabilRowsFromText; stored is the history of
\* the lines assigned to pendingTotalLine
ParserState(group, order, pending, rws, hist) ==
    [currentGroup |-> group, columnOrder |-> order, pendingTotalLine |-> pending,
     rows |-> rws, stored |-> hist]

ParserStart == ParserState("OUTROS", "SA_SANT_DEB_CRED", NULL, <<>>, <<>>)

\* preClean after the attempt to split a fused "COD.CLASSIF"
rejoinFused(fused, preClean) ==
    IF fused.code # NullStr /\ fused.rest # ""
    THEN fused.code \o " " \o fused.rest
    ELSE preClean

rowFields(lead, first) ==
    [code |-> lead.code, classification |-> first.classification,
     description |-> cleanSpaces(first.rest)]

leadFields(lead) == rowFields(lead, extractFirstClassification(lead.rest))

preFields(preClean) ==
    leadFields(extractLeadingCode(
        rejoinFused(splitFusedCodeClassification(preClean), preClean)))

\* code, classification and description of a line, from the text before
\* its first money token
lineFields(line, matches) ==
    preFields(cleanSpaces(SubSeq(line, 1, IndexOf(line, matches[1]) - 1)))

rowGroup(current, inferred) ==
    IF current # "OUTROS" THEN current
    ELSE IF inferred # NullStr THEN inferred
    ELSE current

\* a line with two or more money tokens: stored as pending, or emitted
\* variant: a total line is stored as pending whatever the current group
dataLine_pendingInAnyGroup(ps, line, nMatches, cols, f) ==
    IF /\ f.code # NullStr
       /\ f.classification = NullStr
       /\ (f.description = "" \/ f.description = f.code)
       /\ nMatches >= 4
    THEN [ps EXCEPT
            !.pendingTotalLine = [line |-> line, code |-> f.code, cols |-> cols],
            !.stored = Append(@, line)]
    ELSE [ps EXCEPT
            !.rows = Append(@, ContabilRow(line,
                        rowGroup(ps.currentGroup, inferGroupByClassification(f.classification)),
                        f.code, f.classification,
                        IF f.description = "" THEN NullStr ELSE f.description, cols))]

dataLine(ps, line, nMatches, cols, f) ==
    IF /\ ps.currentGroup = "OUTROS"
       /\ f.code # NullStr
       /\ f.classification = NullStr
       /\ (f.description = "" \/ f.description = f.code)
       /\ nMatches >= 4
    THEN [ps EXCEPT
            !.pendingTotalLine = [line |-> line, code |-> f.code, cols |-> cols],
            !.stored = Append(@, line)]
    ELSE [ps EXCEPT
            !.rows = Append(@, ContabilRow(line,
                        rowGroup(ps.currentGroup, inferGroupByClassification(f.classification)),
                        f.code, f.classification,
                        IF f.description = "" THEN NullStr ELSE f.description, cols))]

\* a section header: the pending line, if any, becomes the section's total
\* variant: the pending line stays stored after it was emitted
sectionLine_pendingKept(ps, section, pend) ==
    [ps EXCEPT
        !.rows = IF pend = NULL THEN @
                 ELSE Append(@, ContabilRow(pend.line, section, pend.code, NullStr,
                                            "TOTAL " \o section, pend.cols)),
        !.currentGroup = section]

sectionLine(ps, section, pend) ==
    [ps EXCEPT
        !.rows = IF pend = NULL THEN @
                 ELSE Append(@, ContabilRow(pend.line, section, pend.code, NullStr,
                                            "TOTAL " \o section, pend.cols)),
        !.pendingTotalLine = NULL,
        !.currentGroup = section]

cleanLine(ps, line, maybeOrder, section, matches) ==
    IF maybeOrder # NullStr THEN [ps EXCEPT !.columnOrder = maybeOrder]
    ELSE IF section # NullStr THEN sectionLine(ps, section, ps.pendingTotalLine)
    ELSE IF isHeaderLine(line) THEN ps
    ELSE IF Len(matches) < 2 THEN ps
    ELSE dataLine(ps, line, Len(matches), mapMoneyTokens(matches, ps.columnOrder),
                  lineFields(line, matches))

unglued(ps, line) ==
    cleanLine(ps, line, detectColumnOrderFromHeader(line), detectSectionHeader(line),
              moneyMatches(line))

\* one iteration of the loop over the lines
parseLine(ps, raw) == unglued(ps, unglueMoneyTokens(cleanSpaces(raw)))

\* after the loop: a pending line left over is emitted as an OUTROS row
flushAtEnd(ps) ==
    LET pend == ps.pendingTotalLine
    IN  IF pend = NULL THEN ps
        ELSE [ps EXCEPT
                !.rows = Append(@, ContabilRow(pend.line, "OUTROS", pend.code, NullStr,
                                               NullStr, pend.cols))]

RECURSIVE parseLines(_, _)
parseLines(ps, ls) ==
    IF ls = <<>> THEN ps ELSE parseLines(parseLine(ps, Head(ls)), Tail(ls))

\* the rows returned for a text given as its trimmed, non-empty lines
parseContabilRowsFromText(ls) == flushAtEnd(parseLines(ParserStart, ls)).rows

(***************************************************************************)
(* Specification of the line parser: one step per line of the text, then   *)
(* the end-of-input flush.                                                 *)
(***************************************************************************)
MaxLines == 3           \* bound: lines of a text

L_BARE_1    == "1 15.196.986,85 5.511.188,33 1.000,00 2.000,00"
L_PENDING_1 == "1 1 15.196.986,85 5.511.188,33 1.000,00 2.000,00"
L_PENDING_2 == "2 2 31.082.543,78 3.000.000,00 1.000,00 2.000,00"
L_ATIVO     == "ATIVO"
L_PASSIVO   == "Passivo  e Patrimonio Liquido"
L_CAIXA     == "11 1.1 Caixa 800.000,00 700.000,00"
L_FUSED     == "371.1.3.02 Bancos 1.000,00(2.000,00)3.000,00-"
L_COLUMNS   == "Codigo Descricao Saldo Anterior Debito Credito Saldo Atual"
L_EMPRESA   == "Empresa Modelo Ltda 1.000,00 2.000,00"
L_RECEITA   == "263 Receita 3.1 de vendas 9.000,00 8.000,00 7.000,00"

ParserLines ==
    {L_BARE_1, L_PENDING_1, L_PENDING_2, L_ATIVO, L_PASSIVO, L_CAIXA, L_FUSED,
     L_COLUMNS, L_EMPRESA, L_RECEITA}

CurrentParserState == ParserState(currentGroup, columnOrder, pendingTotalLine, rows, stored)

SetParserState(ps) ==
    /\ currentGroup' = ps.currentGroup
    /\ columnOrder' = ps.columnOrder
    /\ pendingTotalLine' = ps.pendingTotalLine
    /\ rows' = ps.rows
    /\ stored' = ps.stored

InitParser ==
    /\ pc = "loop"
    /\ inp = NULL /\ out = NULL
    /\ lines \in DistinctSeqs(ParserLines, MaxLines)
    /\ pos = 1
    /\ currentGroup = "OUTROS"
    /\ columnOrder = "SA_SANT_DEB_CRED"
    /\ pendingTotalLine = NULL
    /\ rows = <<>>
    /\ stored = <<>>

\* for (const raw of lines) { ... }
ProcessLine ==
    /\ pc = "loop" /\ pos <= Len(lines)
    /\ SetParserState(parseLine(CurrentParserState, lines[pos]))
    /\ pos' = pos + 1
    /\ UNCHANGED <<pc, inp, out, lines>>

\* the code after the loop, up to the return
EndOfInput ==
    /\ pc = "loop" /\ pos > Len(lines)
    /\ SetParserState(flushAtEnd(CurrentParserState))
    /\ pc' = "done"
    /\ UNCHANGED <<inp, out, lines, pos>>

NextParser == ProcessLine \/ EndOfInput

SpecParser == InitParser /\ [][NextParser]_vars

\* C2: when parsing has ended, every line that was stored as
\* pendingTotalLine is the rawLine of exactly one emitted row (flushed at
\* the next section header or at the end of the input); no stored line is
\* dropped.
C2_PendingNeverDropped ==
    pc = "done" =>
        \A k \in DOMAIN stored :
            Cardinality({i \in DOMAIN rows : rows[i].rawLine = stored[k]}) = 1

(***************************************************************************)
(* normalizeBase.ts: normalizeBase.  The parser always sets group, so the  *)
(* inference of the group from the classification is never used.           *)
(***************************************************************************)
\* x || null
emptyToNull(x) == IF x = "" THEN NullStr ELSE x

normalizeRow(r, period) ==
    Row(Trim(period), r.code,
        emptyToNull(normalizeClassification(r.classification)),
        emptyToNull(Trim(Str(r.description))),
        r.group, r.saldoAtual, r.saldoAnterior, r.debito, r.credito, r.rawLine)

\* the second loop: an OUTROS row takes its group from its description
groupByDescription(rr, d) ==
    IF rr.group # "OUTROS" THEN rr
    ELSE IF d \in {"ATIVO", "TOTAL ATIVO", "ATIVO TOTAL"} THEN [rr EXCEPT !.group = "ATIVO"]
    ELSE IF d \in {"PASSIVO", "TOTAL PASSIVO", "PASSIVO TOTAL"}
    THEN [rr EXCEPT !.group = "PASSIVO"]
    ELSE IF d = "DRE" \/ Includes(d, "RESULTADO") \/ Includes(d, "DEMONSTRACAO")
    THEN [rr EXCEPT !.group = "DRE"]
    ELSE rr

normalizedRow(rr) == groupByDescription(rr, normalizeText(rr.description))

RECURSIVE normalizeBase(_, _)
normalizeBase(rs, period) ==
    IF rs = <<>> THEN <<>>
    ELSE <<normalizedRow(normalizeRow(Head(rs), period))>> \o normalizeBase(Tail(rs), period)

(***************************************************************************)
(* kpiEngine.ts: computeBalanceTotalsFromBase; exactTruth.ts:              *)
(* extractExactTotalsByPeriod, which analyzeEngine.ts calls without texts. *)
(* Messages are spelled without their accents; the amounts that the two    *)
(* correction notes print after the period are left out of the text.       *)
(***************************************************************************)
\* the keys of the Map built from the rows, in insertion order
RECURSIVE periodsOf(_, _)
periodsOf(base, seen) ==
    IF base = <<>> THEN <<>>
    ELSE IF Head(base).period = "" \/ Head(base).period \in seen
    THEN periodsOf(Tail(base), seen)
    ELSE <<Head(base).period>> \o periodsOf(Tail(base), seen \cup {Head(base).period})

rowsOfPeriod(base, period) == SelectSeq(base, LAMBDA r : r.period = period)

\* numFromAny((row as any)?.saldoAtual)
rawOfPicked(row) == IF row = NULL THEN Zero ELSE numFromAny(row.saldoAtual)

\* Math.abs(a - b) > 0.01
DiffersByMoreThanCent(a, b) == NGt(Abs(NSub(a, b)), Cents(1))

NoteAtivoNotFound(period) ==
    "Periodo " \o period \o ": nao encontrou TOTAL ATIVO com seguranca."
NotePassivoNotFound(period) ==
    "Periodo " \o period \o ": nao encontrou TOTAL PASSIVO com seguranca."
NoteAtivoFixed(period) ==
    "Periodo " \o period \o ": ATIVO corrigido por colagem de digito."
NotePassivoFixed(period) ==
    "Periodo " \o period \o ": PASSIVO corrigido/filtrado por outlier."

periodNotes(period, ativoRow, ativo_raw, ativo_total, passivoRow, passivo_raw, passivo_total) ==
    (IF ativoRow = NULL THEN <<NoteAtivoNotFound(period)>> ELSE <<>>)
    \o (IF passivoRow = NULL THEN <<NotePassivoNotFound(period)>> ELSE <<>>)
    \o (IF ~IsZero(ativo_raw) /\ DiffersByMoreThanCent(ativo_raw, ativo_total)
        THEN <<NoteAtivoFixed(period)>> ELSE <<>>)
    \o (IF /\ ~IsZero(passivo_raw) /\ DiffersByMoreThanCent(passivo_raw, passivo_total)
           /\ NGt(passivo_total, Zero)
        THEN <<NotePassivoFixed(period)>> ELSE <<>>)

periodResult(period, ativoRow, ativo_total, passivoRow, passivo_total) ==
    [period |-> period, ativo_total |-> ativo_total, passivo_total |-> passivo_total,
     notes |-> periodNotes(period, ativoRow, rawOfPicked(ativoRow), ativo_total,
                           passivoRow, rawOfPicked(passivoRow), passivo_total)]

withPassivoRow(period, ativoRow, ativo_total, passivoRow) ==
    periodResult(period, ativoRow, ativo_total, passivoRow,
                 brRound(applyGluedFix("PASSIVO", rawOfPicked(passivoRow), ativo_total)))

withAtivoTotal(period, rs, ativoRow, ativo_total) ==
    withPassivoRow(period, ativoRow, ativo_total, pickTotal(rs, "PASSIVO", ativo_total))

withAtivoRow(period, rs, ativoRow) ==
    withAtivoTotal(period, rs, ativoRow,
                   brRound(applyGluedFix("ATIVO", rawOfPicked(ativoRow), Zero)))

\* the totals of one period and the notes pushed while computing them
balanceTotalsOfPeriod(period, rs) == withAtivoRow(period, rs, pickTotal(rs, "ATIVO", Zero))

RECURSIVE balanceTotals(_, _)
balanceTotals(base, periods) ==
    IF periods = <<>> THEN <<>>
    ELSE <<balanceTotalsOfPeriod(Head(periods), rowsOfPeriod(base, Head(periods)))>>
         \o balanceTotals(base, Tail(periods))

RECURSIVE notesOf(_)
notesOf(results) ==
    IF results = <<>> THEN <<>> ELSE Head(results).notes \o notesOf(Tail(results))

NoteNoPeriods == "Nao foi possivel agrupar periodos para Ativo/Passivo."

balanceResult(results) ==
    [byPeriod |-> [i \in DOMAIN results |->
                     [period |-> results[i].period,
                      ativo_total |-> results[i].ativo_total,
                      passivo_total |-> results[i].passivo_total]],
     notes |-> notesOf(results) \o (IF results = <<>> THEN <<NoteNoPeriods>> ELSE <<>>)]

computeBalanceTotalsFromBase(base) == balanceResult(balanceTotals(base, periodsOf(base, {})))

exactFromFallback(fallback) == [totals |-> fallback.byPeriod, notes |-> fallback.notes]

extractExactTotalsByPeriod(base) == exactFromFallback(computeBalanceTotalsFromBase(base))

(***************************************************************************)
(* analyzeEngine.ts: parsePeriod, sortPeriodLabels                         *)
(***************************************************************************)
\* Number(s) for a short run of digits
DigitsToNat(s) == BToInt(DigitsToBig(s))

RECURSIVE SkipSpaces(_, _)
\* the first index from i on that holds no white space
SkipSpaces(s, i) == IF i <= Len(s) /\ IsSpace(Ch(s, i)) THEN SkipSpaces(s, i + 1) ELSE i

\* /T\s*(\d)\s*\/\s*(\d{4})/i matched at index i, as the indices of its two groups
quarterAt4(s, n, y) ==
    IF y + 3 <= Len(s) /\ AllDigits(SubSeq(s, y, y + 3)) THEN [n |-> n, y |-> y] ELSE NULL
quarterAt3(s, n, slash) ==
    IF slash <= Len(s) /\ Ch(s, slash) = "/"
    THEN quarterAt4(s, n, SkipSpaces(s, slash + 1)) ELSE NULL
quarterAt2(s, n) ==
    IF n <= Len(s) /\ IsDigit(Ch(s, n)) THEN quarterAt3(s, n, SkipSpaces(s, n + 1)) ELSE NULL
quarterAt(s, i) ==
    IF Ch(s, i) \in {"T", "t"} THEN quarterAt2(s, SkipSpaces(s, i + 1)) ELSE NULL

RECURSIVE quarterFrom(_, _)
quarterFrom(s, i) ==
    IF i > Len(s) THEN NULL
    ELSE IF quarterAt(s, i) # NULL THEN quarterAt(s, i)
    ELSE quarterFrom(s, i + 1)

parsedPeriod(s, tq) ==
    IF tq # NULL
    THEN [kind |-> "q", y |-> DigitsToNat(SubSeq(s, tq.y, tq.y + 3)),
          n |-> DigitVal(Ch(s, tq.n))]
    ELSE IF /\ Len(s) = 7 /\ AllDigits(SubSeq(s, 1, 4)) /\ Ch(s, 5) = "-"
            /\ AllDigits(SubSeq(s, 6, 7))
    THEN [kind |-> "m", y |-> DigitsToNat(SubSeq(s, 1, 4)), n |-> DigitsToNat(SubSeq(s, 6, 7))]
    ELSE IF Len(s) = 4 /\ AllDigits(s)
    THEN [kind |-> "y", y |-> DigitsToNat(s), n |-> 0]
    ELSE [kind |-> "raw", y |-> 0, n |-> 0]

parsePeriodTrimmed(s) == parsedPeriod(s, quarterFrom(s, 1))

parsePeriod(p) == parsePeriodTrimmed(Trim(Str(p)))

\* variant: quarters are placed before years
orderKind_quarterFirst(k) == IF k = "q" THEN 1 ELSE IF k = "y" THEN 2 ELSE IF k = "m" THEN 3 ELSE 9

orderKind(k) == IF k = "y" THEN 1 ELSE IF k = "q" THEN 2 ELSE IF k = "m" THEN 3 ELSE 9

\* String.prototype.localeCompare on the characters that period labels are
\* made of: punctuation before digits before letters, a letter's case
\* deciding only between texts that are otherwise equal
CollationOrder == " _-./0123456789aAbBcCdDeEfFgGhHiIjJkKlLmMnNoOpPqQrRsStTuUvVwWxXyYzZ"
tertiaryRank(c) == IndexOf(CollationOrder, c)
primaryRank(c) ==
    IF tertiaryRank(c) <= 15 THEN tertiaryRank(c) ELSE 16 + (tertiaryRank(c) - 16) \div 2

RECURSIVE tertiaryRanks(_)
tertiaryRanks(s) ==
    IF s = "" THEN <<>> ELSE <<tertiaryRank(Head(s))>> \o tertiaryRanks(Tail(s))

RECURSIVE primaryRanks(_)
primaryRanks(s) ==
    IF s = "" THEN <<>> ELSE <<primaryRank(Head(s))>> \o primaryRanks(Tail(s))

RECURSIVE compareRanks(_, _)
compareRanks(a, b) ==
    IF a = <<>> /\ b = <<>> THEN 0
    ELSE IF a = <<>> THEN -1
    ELSE IF b = <<>> THEN 1
    ELSE IF Head(a) < Head(b) THEN -1
    ELSE IF Head(a) > Head(b) THEN 1
    ELSE compareRanks(Tail(a), Tail(b))

localeCompare(a, b) ==
    IF compareRanks(primaryRanks(a), primaryRanks(b)) # 0
    THEN compareRanks(primaryRanks(a), primaryRanks(b))
    ELSE compareRanks(tertiaryRanks(a), tertiaryRanks(b))

\* the comparator of the sort, on {raw, p} records
comparePeriods(a, b) ==
    IF orderKind(a.p.kind) # orderKind(b.p.kind) THEN orderKind(a.p.kind) - orderKind(b.p.kind)
    ELSE IF a.p.y # b.p.y THEN a.p.y - b.p.y
    ELSE IF a.p.n # b.p.n THEN a.p.n - b.p.n
    ELSE localeCompare(Str(a.raw), Str(b.raw))

RECURSIVE parseLabels(_)
parseLabels(labels) ==
    IF labels = <<>> THEN <<>>
    ELSE <<[raw |-> Head(labels), p |-> parsePeriod(Head(labels))]>> \o parseLabels(Tail(labels))

\* x placed after the elements of the sorted sequence that do not follow it
RECURSIVE insertPeriod(_, _)
insertPeriod(sorted, x) ==
    IF sorted = <<>> THEN <<x>>
    ELSE IF comparePeriods(x, Head(sorted)) < 0 THEN <<x>> \o sorted
    ELSE <<Head(sorted)>> \o insertPeriod(Tail(sorted), x)

\* Array.prototype.sort is stable
RECURSIVE sortParsed(_, _)
sortParsed(sorted, parsed) ==
    IF parsed = <<>> THEN sorted
    ELSE sortParsed(insertPeriod(sorted, Head(parsed)), Tail(parsed))

sortedRaw(labels, parsed) ==
    IF \A i \in DOMAIN parsed : parsed[i].p.kind = "raw" THEN labels
    ELSE [i \in DOMAIN parsed |-> sortParsed(<<>>, parsed)[i].raw]

\* variant: a list without a parsed label is sorted as well
sortPeriodLabels_alwaysSorted(labels) ==
    [i \in DOMAIN labels |-> sortParsed(<<>>, parseLabels(labels))[i].raw]

sortPeriodLabels(labels) == sortedRaw(labels, parseLabels(labels))

\* floor(n / d) of integers given as sign and magnitude, d > 0
floorOf(nNeg, qr) ==
    IF ~nNeg \/ qr[2] = <<>> THEN Num(nNeg /\ qr[1] # <<>>, qr[1])
    ELSE Num(TRUE, BAdd(qr[1], <<1>>))
floorDiv(nNeg, nMag, dMag) ==
    CHOOSE r \in {floorOf(nNeg, qr) : qr \in {BDivMod(nMag, dMag)}} : TRUE

\* Math.round(q) = floor(q + 1/2) for q = n / d: floor((2n + d) / 2d), d > 0
roundDivOf(twice, twiceDen) == floorDiv(twice.neg, twice.mag, twiceDen)
roundDiv(n, divisor) ==
    roundDivOf(NAdd(NMulS(n, 2), Num(FALSE, divisor)), BMulS(divisor, 2))

\* brRound((num / den) * 100): hundredths Math.round(num * 10000 / den), as millis
pctOf(num, den) ==
    CHOOSE r \in {Num(h.neg, BShift(h.mag, 1))
                     : h \in {roundDiv(Num(num.neg # den.neg, BShift(num.mag, 4)), den.mag)}} : TRUE

(***************************************************************************)
(* exactTruth.ts: filterOutliersForRankings.  The balance columns of a row *)
(* are typed any: a row holds null, a number, or the {raw, value} object   *)
(* that the line parser stores and normalizeBase copies.  Number() of an   *)
(* object is NaN.  The products with 1.05 are exact here; the inputs keep  *)
(* away from the cap itself, where the double product decides.             *)
(***************************************************************************)
HARD_CAP_PERCENT == 105
BILLION_GUARD_BELOW == Amt("200.000.000,00")
BILLION == Amt("1.000.000.000,00")
TRILLION == Amt("1.000.000.000.000,00")

IsNumber(v) == "mag" \in DOMAIN v

\* Number(v) for null-coalesced v
toNumber(v) == IF IsNumber(v) THEN v ELSE NaN

\* Number.isFinite(Number(v)) ? Number(v) : 0
finiteOrZero(v) == IF toNumber(v) = NaN THEN Zero ELSE toNumber(v)

getSaldo(r) == finiteOrZero(IF r.saldoAtual = NULL THEN Zero ELSE r.saldoAtual)

\* v > ativoTotal * 1.05
aboveHardCap(v, ativoTotal) == NGt(NMulS(v, 100), NMulS(ativoTotal, HARD_CAP_PERCENT))

\* v >= billionGuard
atBillionGuard(v, ativoTotal) == NLt(ativoTotal, BILLION_GUARD_BELOW) /\ NGe(v, BILLION)

keptUnderCap(r, ativoTotal) ==
    /\ ~IsZero(getSaldo(r))
    /\ ~aboveHardCap(Abs(getSaldo(r)), ativoTotal)
    /\ ~atBillionGuard(Abs(getSaldo(r)), ativoTotal)

filterOutliersForRankings(rs, ativoTotal) ==
    IF IsZero(ativoTotal) \/ ativoTotal.neg
    THEN SelectSeq(rs, LAMBDA r : NLt(Abs(getSaldo(r)), TRILLION))
    ELSE SelectSeq(rs, LAMBDA r : keptUnderCap(r, ativoTotal))

(***************************************************************************)
(* analyzeEngine.ts: computeDreTotalFromBase, computeFromBalancetes.       *)
(* A file is its period label (the result of detectPeriodLabel) and its    *)
(* text as the sequence of its trimmed, non-empty lines.  The result keeps *)
(* the alerts, the KPIs by period, the series, and for every file the      *)
(* assets total handed to filterOutliersForRankings.                       *)
(***************************************************************************)
isDreClass(cls) == cls = "3" \/ cls = "3.0" \/ StartsWith(cls, "3.")

\* the amount a row adds to the DRE total
dreAmount(r) ==
    IF ~IsZero(numFromAny(r.debito)) THEN Abs(numFromAny(r.debito))
    ELSE IF ~IsZero(numFromAny(r.credito)) THEN Abs(numFromAny(r.credito))
    ELSE Abs(numFromAny(r.saldoAtual))

RECURSIVE sumDre(_, _)
sumDre(base, period) ==
    IF base = <<>> THEN Zero
    ELSE IF /\ Head(base).period = period
            /\ isDreClass(normalizeClassification(Head(base).classification))
            /\ ~NLt(dreAmount(Head(base)), Cents(1))
    THEN NAdd(dreAmount(Head(base)), sumDre(Tail(base), period))
    ELSE sumDre(Tail(base), period)

computeDreTotalFromBase(base, period) == brRound(sumDre(base, period))

File(period, text) == [period |-> period, text |-> text]

RECURSIVE perFileRawOf(_)
perFileRawOf(files) ==
    IF files = <<>> THEN <<>>
    ELSE <<[period |-> Head(files).period,
            rows |-> parseContabilRowsFromText(Head(files).text)]>>
         \o perFileRawOf(Tail(files))

RECURSIVE baseNormalizadaOf(_)
baseNormalizadaOf(perFileRaw) ==
    IF perFileRaw = <<>> THEN <<>>
    ELSE normalizeBase(Head(perFileRaw).rows, Head(perFileRaw).period)
         \o baseNormalizadaOf(Tail(perFileRaw))

RECURSIVE periodLabels(_)
periodLabels(perFileRaw) ==
    IF perFileRaw = <<>> THEN <<>>
    ELSE <<Head(perFileRaw).period>> \o periodLabels(Tail(perFileRaw))

\* perFileRaw.find((x) => x.period === p)
RECURSIVE findFile(_, _)
findFile(perFileRaw, p) ==
    IF Head(perFileRaw).period = p THEN Head(perFileRaw) ELSE findFile(Tail(perFileRaw), p)

RECURSIVE perFileOf(_, _)
perFileOf(perFileRaw, orderedPeriods) ==
    IF orderedPeriods = <<>> THEN <<>>
    ELSE <<findFile(perFileRaw, Head(orderedPeriods))>>
         \o perFileOf(perFileRaw, Tail(orderedPeriods))

\* the index of the entry that totalsMap keeps for the period: the last one set
lastEntryOf(totals, period) ==
    CHOOSE i \in DOMAIN totals :
        /\ totals[i].period = period
        /\ \A j \in DOMAIN totals : totals[j].period = period => j <= i

\* variant: a period without an entry takes the totals of the first entry
totalsMapGet_firstWhenMissing(totals, period) ==
    IF \E i \in DOMAIN totals : totals[i].period = period
    THEN totals[lastEntryOf(totals, period)]
    ELSE IF totals = <<>> THEN NULL
    ELSE totals[1]

\* totalsMap.get(period)
totalsMapGet(totals, period) ==
    IF \E i \in DOMAIN totals : totals[i].period = period
    THEN totals[lastEntryOf(totals, period)]
    ELSE NULL

\* safeNumber(tt?.ativo_total), safeNumber(tt?.passivo_total)
ativoTotalOf(tt) == IF tt = NULL THEN Zero ELSE tt.ativo_total
passivoTotalOf(tt) == IF tt = NULL THEN Zero ELSE tt.passivo_total

AlertInfo(message) == [level |-> "info", message |-> message]
AlertWarning(message) == [level |-> "warning", message |-> message]

AlertAtivoNotFound(period) ==
    AlertWarning("Ativo Total nao encontrado com seguranca em " \o period
                 \o ". (PDF pode estar quebrando a linha total em '1' / '1.').")
AlertPassivoNotFound(period) ==
    AlertWarning("Passivo Total nao encontrado com seguranca em " \o period
                 \o ". (PDF pode estar quebrando a linha total em '2' / '2.').")
AlertFewPeriods == AlertWarning("Envie pelo menos 2 periodos para comparacao.")

kpiEntry(f, tt, base) ==
    [period |-> f.period,
     kpis |-> [ativoTotal |-> ativoTotalOf(tt), passivoTotal |-> passivoTotalOf(tt),
               dreTotal |-> computeDreTotalFromBase(base, f.period),
               linhasDetectadas |-> Len(f.rows)]]

RECURSIVE kpisByPeriodOf(_, _, _)
kpisByPeriodOf(perFile, totals, base) ==
    IF perFile = <<>> THEN <<>>
    ELSE <<kpiEntry(Head(perFile), totalsMapGet(totals, Head(perFile).period), base)>>
         \o kpisByPeriodOf(Tail(perFile), totals, base)

\* the alerts pushed while the KPIs of the periods are built
RECURSIVE kpiAlerts(_)
kpiAlerts(kpisByPeriod) ==
    IF kpisByPeriod = <<>> THEN <<>>
    ELSE (IF IsZero(Head(kpisByPeriod).kpis.ativoTotal)
          THEN <<AlertAtivoNotFound(Head(kpisByPeriod).period)>> ELSE <<>>)
         \o (IF IsZero(Head(kpisByPeriod).kpis.passivoTotal)
             THEN <<AlertPassivoNotFound(Head(kpisByPeriod).period)>> ELSE <<>>)
         \o kpiAlerts(Tail(kpisByPeriod))

RECURSIVE infoAlerts(_)
infoAlerts(notes) ==
    IF notes = <<>> THEN <<>> ELSE <<AlertInfo(Head(notes))>> \o infoAlerts(Tail(notes))

seriesOf(kpisByPeriod) ==
    [ativoTotal |-> [i \in DOMAIN kpisByPeriod |->
                       [period |-> kpisByPeriod[i].period,
                        value |-> kpisByPeriod[i].kpis.ativoTotal]],
     passivoTotal |-> [i \in DOMAIN kpisByPeriod |->
                         [period |-> kpisByPeriod[i].period,
                          value |-> kpisByPeriod[i].kpis.passivoTotal]],
     dreTotal |-> [i \in DOMAIN kpisByPeriod |->
                     [period |-> kpisByPeriod[i].period,
                      value |-> kpisByPeriod[i].kpis.dreTotal]]]

\* kpisByPeriod.find((x) => x.period === period)?.kpis.ativoTotal ?? 0
RECURSIVE findAtivoTotal(_, _)
findAtivoTotal(kpisByPeriod, period) ==
    IF kpisByPeriod = <<>> THEN Zero
    ELSE IF Head(kpisByPeriod).period = period THEN Head(kpisByPeriod).kpis.ativoTotal
    ELSE findAtivoTotal(Tail(kpisByPeriod), period)

\* for every file of the rankings loop, the bound given to the outlier filter
RECURSIVE rankingBoundsOf(_, _)
rankingBoundsOf(perFile, kpisByPeriod) ==
    IF perFile = <<>> THEN <<>>
    ELSE <<[period |-> Head(perFile).period,
            ativoTotal |-> findAtivoTotal(kpisByPeriod, Head(perFile).period)]>>
         \o rankingBoundsOf(Tail(perFile), kpisByPeriod)

\* analyzeEngine.ts has its own copy of groupFromClassification
groupFromClassification(clsRaw) ==
    IF normalizeClassification(clsRaw) \in {"1", "1.0"}
       \/ StartsWith(normalizeClassification(clsRaw), "1.") THEN "ATIVO"
    ELSE IF normalizeClassification(clsRaw) \in {"2", "2.0"}
            \/ StartsWith(normalizeClassification(clsRaw), "2.") THEN "PASSIVO"
    ELSE IF normalizeClassification(clsRaw) \in {"3", "3.0"}
            \/ StartsWith(normalizeClassification(clsRaw), "3.") THEN "DRE"
    ELSE "OUTROS"

\* safeNumber(r.saldoAtual ?? 0)
safeNumber(v) == finiteOrZero(IF v = NULL THEN Zero ELSE v)

TOP_SALDOS == 10
TOP_VARIACOES == 15
MIN_DELTA == Cents(1)

\* the rows of the period of the file that the outlier filter lets through
safeRowsOf(f, base, kpisByPeriod) ==
    filterOutliersForRankings(rowsOfPeriod(base, f.period), findAtivoTotal(kpisByPeriod, f.period))

\* the row is pushed to the list of the group
ranked(r, grp) ==
    /\ ~IsZero(safeNumber(r.saldoAtual))
    /\ ~Includes(ToUpperCase(Str(r.description)), "TOTAL")
    /\ groupFromClassification(r.classification) = grp

RECURSIVE rankedEntries(_, _, _)
rankedEntries(safeRows, period, grp) ==
    IF safeRows = <<>> THEN <<>>
    ELSE (IF ranked(Head(safeRows), grp)
          THEN <<[code |-> Head(safeRows).code, description |-> Head(safeRows).description,
                  value |-> brRound(safeNumber(Head(safeRows).saldoAtual)), period |-> period]>>
          ELSE <<>>)
         \o rankedEntries(Tail(safeRows), period, grp)

\* topAtivo or topPassivo after the loop over the files
RECURSIVE topOfGroup(_, _, _, _)
topOfGroup(perFile, base, kpisByPeriod, grp) ==
    IF perFile = <<>> THEN <<>>
    ELSE rankedEntries(safeRowsOf(Head(perFile), base, kpisByPeriod), Head(perFile).period, grp)
         \o topOfGroup(Tail(perFile), base, kpisByPeriod, grp)

\* the score of an entry of a ranking: |value|, or |delta| for a variance
scoreOf(x) == IF "delta" \in DOMAIN x THEN Abs(x.delta) ELSE Abs(x.value)

\* Array.prototype.sort is stable: x goes before the first entry of lower score
RECURSIVE insertByScore(_, _)
insertByScore(sorted, x) ==
    IF sorted = <<>> THEN <<x>>
    ELSE IF NLt(scoreOf(Head(sorted)), scoreOf(x)) THEN <<x>> \o sorted
    ELSE <<Head(sorted)>> \o insertByScore(Tail(sorted), x)

RECURSIVE sortByScore(_, _)
sortByScore(sorted, arr) ==
    IF arr = <<>> THEN sorted
    ELSE sortByScore(insertByScore(sorted, Head(arr)), Tail(arr))

firstN(sorted, n) == SubSeq(sorted, 1, Min2(n, Len(sorted)))

topN(arr, n) == firstN(sortByScore(<<>>, arr), n)

mkKeyOf(c, d) == IF c # "" THEN "C:" \o c \o "|D:" \o d ELSE "D:" \o d
mkKey(code, desc) == mkKeyOf(Trim(Str(code)), ToUpperCase(Trim(Str(desc))))

\* map.set(key, prev) with prev.values[period] = value
mapSet(map, key, r, period, value) ==
    IF \E i \in DOMAIN map : map[i].key = key
    THEN [i \in DOMAIN map |->
             IF map[i].key = key
             THEN [map[i] EXCEPT !.values =
                      [p \in DOMAIN map[i].values \cup {period} |->
                          IF p = period THEN value ELSE map[i].values[p]]]
             ELSE map[i]]
    ELSE Append(map, [key |-> key, code |-> r.code, description |-> r.description,
                      values |-> [p \in {period} |-> value]])

RECURSIVE mapOfRows(_, _, _)
mapOfRows(map, safeRows, period) ==
    IF safeRows = <<>> THEN map
    ELSE mapOfRows(mapSet(map, mkKey(Head(safeRows).code, Head(safeRows).description),
                          Head(safeRows), period,
                          brRound(safeNumber(Head(safeRows).saldoAtual))),
                   Tail(safeRows), period)

RECURSIVE variationMap(_, _, _, _)
variationMap(map, perFile, base, kpisByPeriod) ==
    IF perFile = <<>> THEN map
    ELSE variationMap(mapOfRows(map, safeRowsOf(Head(perFile), base, kpisByPeriod),
                                Head(perFile).period),
                      Tail(perFile), base, kpisByPeriod)

\* safeNumber(obj.values[period])
valueAt(obj, period) == IF period \in DOMAIN obj.values THEN obj.values[period] ELSE Zero

deltaPctOf(a, b) == IF IsZero(a) THEN NULL ELSE pctOf(NSub(b, a), Abs(a))

variationOf(obj, a, b, firstPeriod, lastPeriod) ==
    IF IsZero(a) /\ IsZero(b) THEN <<>>
    ELSE IF NLt(Abs(brRound(NSub(b, a))), MIN_DELTA) THEN <<>>
    ELSE <<[key |-> obj.key, code |-> obj.code, description |-> obj.description,
            from |-> firstPeriod, to |-> lastPeriod,
            delta |-> brRound(NSub(b, a)), deltaPct |-> deltaPctOf(a, b)]>>

RECURSIVE variationsOf(_, _, _)
variationsOf(map, firstPeriod, lastPeriod) ==
    IF map = <<>> THEN <<>>
    ELSE variationOf(Head(map), valueAt(Head(map), firstPeriod),
                     valueAt(Head(map), lastPeriod), firstPeriod, lastPeriod)
         \o variationsOf(Tail(map), firstPeriod, lastPeriod)

variacoesOf(perFile, map) ==
    IF perFile = <<>> \/ perFile[1].period = "" \/ perFile[Len(perFile)].period = ""
       \/ perFile[1].period = perFile[Len(perFile)].period
    THEN <<>>
    ELSE variationsOf(map, perFile[1].period, perFile[Len(perFile)].period)

AlertHighVariation(maior) ==
    AlertWarning("Variacao alta detectada: "
                 \o (IF maior.description # NullStr THEN maior.description
                     ELSE IF maior.code # NullStr THEN maior.code ELSE "Conta")
                 \o " (" \o maior.from \o " -> " \o maior.to \o ").")
AlertLargestVariation(maior) ==
    AlertInfo("Maior variacao no periodo: "
              \o (IF maior.description # NullStr THEN maior.description
                  ELSE IF maior.code # NullStr THEN maior.code ELSE "Conta")
              \o " (" \o maior.from \o " -> " \o maior.to \o ").")

variationAlerts(topVariacoes) ==
    IF topVariacoes = <<>> THEN <<>>
    ELSE IF topVariacoes[1].deltaPct # NULL /\ NGe(Abs(topVariacoes[1].deltaPct), Units(50))
    THEN <<AlertHighVariation(topVariacoes[1])>>
    ELSE <<AlertLargestVariation(topVariacoes[1])>>

rankingsOf(perFile, base, kpisByPeriod) ==
    [topSaldosAtivo |-> topN(topOfGroup(perFile, base, kpisByPeriod, "ATIVO"), TOP_SALDOS),
     topSaldosPassivo |-> topN(topOfGroup(perFile, base, kpisByPeriod, "PASSIVO"), TOP_SALDOS),
     topVariacoes |-> topN(variacoesOf(perFile, variationMap(<<>>, perFile, base, kpisByPeriod)),
                           TOP_VARIACOES)]

\* perFile.reduce((acc, f) => acc + (f.rows?.length ?? 0), 0)
RECURSIVE rowsDetectedOf(_)
rowsDetectedOf(perFile) ==
    IF perFile = <<>> THEN 0 ELSE Len(Head(perFile).rows) + rowsDetectedOf(Tail(perFile))

analysisWith(perFile, base, exact, kpisByPeriod, rankings) ==
    [summary |-> [rowsDetected |-> rowsDetectedOf(perFile)],
     baseNormalizada |-> base,
     alerts |-> infoAlerts(exact.notes)
                    \o (IF Len(perFile) < 2 THEN <<AlertFewPeriods>> ELSE <<>>)
                    \o kpiAlerts(kpisByPeriod)
                    \o variationAlerts(rankings.topVariacoes),
     kpisByPeriod |-> kpisByPeriod,
     series |-> seriesOf(kpisByPeriod),
     rankingBounds |-> rankingBoundsOf(perFile, kpisByPeriod),
     rankings |-> rankings]

analysisResult(perFile, base, exact, kpisByPeriod) ==
    analysisWith(perFile, base, exact, kpisByPeriod, rankingsOf(perFile, base, kpisByPeriod))

analyzePerFile(perFile, base, exact) ==
    analysisResult(perFile, base, exact, kpisByPeriodOf(perFile, exact.totals, base))

analyzeBase(perFileRaw, base) ==
    analyzePerFile(perFileOf(perFileRaw, sortPeriodLabels(periodLabels(perFileRaw))),
                   base, extractExactTotalsByPeriod(base))

analyzeRaw(perFileRaw) == analyzeBase(perFileRaw, baseNormalizadaOf(perFileRaw))

computeFromBalancetes(files) == analyzeRaw(perFileRawOf(files))

(***************************************************************************)
(* Specification of the analysis: one call of computeFromBalancetes on one *)
(* or two files.                                                           *)
(***************************************************************************)
MaxDocLines == 2        \* bound: lines of the first file's text

L_BARE_7 == "7 15.196.986,85 5.511.188,33 1.000,00 2.000,00"
L_FORNEC == "12 2.1 Fornecedores 4.400.000,00 4.000.000,00"

DocLines == {L_BARE_1, L_BARE_7, L_PENDING_1, L_PENDING_2, L_ATIVO, L_PASSIVO, L_FORNEC}

\* texts of the second file
L_FORNEC_NEXT == "12 2.1 Fornecedores 5.000.000,00 4.400.000,00"

SecondTexts == {<<>>, <<L_PENDING_2, L_PASSIVO>>, <<L_PENDING_1, L_ATIVO>>, <<L_FORNEC_NEXT>>}

\* period labels of the first and the second file
PeriodPairs == {<<"2023", "2024">>, <<"T1/2024", "2023">>, <<"2024", "2024">>}

InitPipeline ==
    /\ pc = "call"
    /\ \E text \in DistinctSeqs(DocLines, MaxDocLines), labels \in PeriodPairs :
          \/ inp = [files |-> <<File(labels[1], text)>>]
          \/ \E second \in SecondTexts :
                inp = [files |-> <<File(labels[1], text), File(labels[2], second)>>]
    /\ out = NULL
    /\ IdleParser

CallComputeFromBalancetes ==
    /\ pc = "call"
    /\ out' = computeFromBalancetes(inp.files)
    /\ pc' = "analyzed"
    /\ UNCHANGED <<inp, parserVars>>

NextPipeline == CallComputeFromBalancetes

SpecPipeline == InitPipeline /\ [][NextPipeline]_vars

\* a line made of a bare code and four monetary tokens, the first of them
\* 15.196.986,85
BareCodeLine(line) ==
    \E code \in {"1", "7"} : line = code \o " 15.196.986,85 5.511.188,33 1.000,00 2.000,00"

\* the text has a bare code line read before any section header, and a later
\* line that is literally "ATIVO"
BareLineThenAtivo(text) ==
    \E i, j \in DOMAIN text :
        /\ i < j
        /\ BareCodeLine(text[i])
        /\ \A k \in 1..(i - 1) : detectSectionHeader(text[k]) = NullStr
        /\ text[j] = "ATIVO"

\* the file is the only one of the call with its period label
OwnPeriod(i) == \A j \in DOMAIN inp.files : inp.files[j].period = inp.files[i].period => j = i

CorrectedAssets == Amt("5.196.986,85")

\* C1: after the analysis, for every file with a period of its own whose text
\* has a line of a bare code and four monetary tokens (the first
\* 15.196.986,85) read before any section header and a later line "ATIVO",
\* the assets series has the point 5,196,986.85 for the file's period and the
\* assets total used as the outlier bound of that period is 5,196,986.85.
C1_BareCodeLineIsAssetsTotal ==
    pc = "analyzed" =>
        \A i \in DOMAIN inp.files :
            OwnPeriod(i) /\ BareLineThenAtivo(inp.files[i].text) =>
                /\ \E k \in DOMAIN out.series.ativoTotal :
                      /\ out.series.ativoTotal[k].period = inp.files[i].period
                      /\ out.series.ativoTotal[k].value = CorrectedAssets
                /\ \E k \in DOMAIN out.rankingBounds :
                      /\ out.rankingBounds[k].period = inp.files[i].period
                      /\ out.rankingBounds[k].ativoTotal = CorrectedAssets

\* a row that pickTotal can take for the title: it passes one of the four
\* filters and its balance is not zero
ViableCandidate(r, title) ==
    /\ \/ inByTitleDesc(r, title) \/ inByClass(r, title)
       \/ inByBrokenPdf(r, title) \/ inByGroup(r, title)
    /\ ~IsZero(saldoRaw(r))

NoViableCandidate(period, title) ==
    \A i \in DOMAIN out.baseNormalizada :
        out.baseNormalizada[i].period = period
            => ~ViableCandidate(out.baseNormalizada[i], title)

ReportedTotal(k, title) ==
    IF title = "ATIVO" THEN out.kpisByPeriod[k].kpis.ativoTotal
    ELSE out.kpisByPeriod[k].kpis.passivoTotal

\* the messages that tell that the total of the title was not found in the period
NotFoundMessages(period, title) ==
    IF title = "ATIVO"
    THEN {NoteAtivoNotFound(period), AlertAtivoNotFound(period).message}
    ELSE {NotePassivoNotFound(period), AlertPassivoNotFound(period).message}

\* C9: after the analysis there is one KPI entry, one point of each series and
\* one outlier bound per file; and for every reported period and each of
\* ATIVO and PASSIVO, when no row of the period is a viable candidate for that
\* total, the reported total is 0 and an alert naming the period and the
\* group is among the alerts.
C9_NoCandidateIsZeroWithNote ==
    pc = "analyzed" =>
        /\ Len(out.kpisByPeriod) = Len(inp.files)
        /\ Len(out.series.ativoTotal) = Len(inp.files)
        /\ Len(out.series.passivoTotal) = Len(inp.files)
        /\ Len(out.rankingBounds) = Len(inp.files)
        /\ \A k \in DOMAIN out.kpisByPeriod, title \in {"ATIVO", "PASSIVO"} :
              NoViableCandidate(out.kpisByPeriod[k].period, title) =>
                  /\ IsZero(ReportedTotal(k, title))
                  /\ \E a \in DOMAIN out.alerts :
                        out.alerts[a].message
                            \in NotFoundMessages(out.kpisByPeriod[k].period, title)

\* two periods are analyzed: one has no viable assets candidate among its
\* rows, the other has a non-zero assets total
C9_Witness ==
    /\ pc = "analyzed"
    /\ \E k, m \in DOMAIN out.kpisByPeriod :
          /\ NoViableCandidate(out.kpisByPeriod[k].period, "ATIVO")
          /\ \E i \in DOMAIN out.baseNormalizada :
                out.baseNormalizada[i].period = out.kpisByPeriod[k].period
          /\ IsZero(ReportedTotal(k, "ATIVO"))
          /\ ~IsZero(ReportedTotal(m, "ATIVO"))

(***************************************************************************)
(* kpiEngine.ts: the DRE figures of a period (computeTccKpisFromBase and   *)
(* its helpers).  Balances are parsed tokens (hundredths), so the sums and *)
(* differences are exact; pct is the exact quotient, rounded.              *)
(***************************************************************************)
RX_receitaLiquida ==
    {"RECEITA LIQUIDA", "RECEITA LIQ", "RECEITAS LIQUIDAS", "RECEITA OPERACIONAL LIQUIDA", "ROL"}
RX_receitaBruta ==
    {"RECEITA BRUTA", "RECEITA OPERACIONAL BRUTA", "VENDAS BRUTAS", "FATURAMENTO BRUTO"}
RX_deducoes ==
    {"DEDUCOES", "DEDUCAO", "DEVOLUCOES", "ABATIMENTOS", "CANCELAMENTOS", "ICMS", "ISS",
     "PIS", "COFINS"}
RX_cmvCpv ==
    {"CMV", "CPV", "CUSTO", "CUSTOS", "CUSTO DAS MERCADORIAS", "CUSTO DOS PRODUTOS",
     "CUSTO DOS SERVICOS", "CUSTO DOS SERVICOS PRESTADOS", "CSP"}
RX_despesasAdmin ==
    {"DESPESAS ADMIN", "DESPESAS ADMINISTRATIVAS", "DESPESA ADMIN", "ADMINISTRATIVAS"}
RX_despesasComerciais ==
    {"DESPESAS COMERC", "DESPESAS COMERCIAIS", "DESPESAS DE VENDAS", "MARKETING",
     "PROPAGANDA", "PUBLICIDADE"}
RX_outrasDespesas ==
    {"OUTRAS DESPESAS", "DESPESAS GERAIS", "DESPESAS OPERACIONAIS", "DESPESAS FINANCEIRAS",
     "CUSTOS FINANCEIROS", "DESPESAS"}

matchAny(desc, patterns) == \E p \in patterns : Includes(desc, p)

PLAN_PREFIX ==
    [receita_bruta |-> {"3.1"}, deducoes |-> {"3.2"}, cmv_cpv |-> {"3.3", "3.4", "3.5"},
     despesas_admin |-> {"3.7", "3.8"}]

\* saldoAtual, else saldoAnterior, else debito - credito
balanceOrMovement(sa, sb, deb, cred) ==
    IF ~IsZero(sa) THEN sa ELSE IF ~IsZero(sb) THEN sb ELSE NSub(deb, cred)

dreValueOf(prefer, cred, deb, sa, sb) ==
    IF prefer = "credito" /\ ~IsZero(cred) THEN cred
    ELSE IF prefer = "debito" /\ ~IsZero(deb) THEN deb
    ELSE IF ~IsZero(sa) THEN sa
    ELSE IF ~IsZero(sb) THEN sb
    ELSE IF ~IsZero(deb) \/ ~IsZero(cred) THEN NSub(deb, cred)
    ELSE Zero

dreValue(r, prefer) ==
    dreValueOf(prefer, numFromAny(r.credito), numFromAny(r.debito),
               numFromAny(r.saldoAtual), numFromAny(r.saldoAnterior))

\* c.match(/^([123]\.\d{1,3})/)
bucketKeyOf(c) ==
    IF Len(c) >= 3 /\ IsRoot(Ch(c, 1)) /\ Ch(c, 2) = "." /\ IsDigit(Ch(c, 3))
    THEN SubSeq(c, 1, 2 + Min2(DigitRun(Slice(c, 3)), 3))
    ELSE NullStr

bucketKey(classification) == bucketKeyOf(normalizeClassification(classification))

isDreRelevantClass(cls) == cls = "3" \/ StartsWith(cls, "3.")

isDreRelevantRow(r) ==
    r.group = "DRE" \/ isDreRelevantClass(normalizeClassification(r.classification))

\* the v of computeBuckets and sumByBucketAbs
bucketValue(r) ==
    balanceOrMovement(numFromAny(r.saldoAtual), numFromAny(r.saldoAnterior),
                      numFromAny(r.debito), numFromAny(r.credito))

\* the keys of the Map of computeBuckets, in insertion order
RECURSIVE bucketKeysOf(_, _)
bucketKeysOf(rs, seen) ==
    IF rs = <<>> THEN <<>>
    ELSE IF bucketKey(Head(rs).classification) = NullStr
            \/ bucketKey(Head(rs).classification) \in seen
    THEN bucketKeysOf(Tail(rs), seen)
    ELSE <<bucketKey(Head(rs).classification)>>
         \o bucketKeysOf(Tail(rs), seen \cup {bucketKey(Head(rs).classification)})

RECURSIVE bucketOf(_, _)
\* {key, total, lines} before the rounding of total
bucketOf(rs, key) ==
    IF rs = <<>> THEN [key |-> key, total |-> Zero, lines |-> 0]
    ELSE IF bucketKey(rs[Len(rs)].classification) # key
    THEN bucketOf(SubSeq(rs, 1, Len(rs) - 1), key)
    ELSE [key |-> key,
          total |-> NAdd(bucketOf(SubSeq(rs, 1, Len(rs) - 1), key).total,
                         bucketValue(rs[Len(rs)])),
          lines |-> bucketOf(SubSeq(rs, 1, Len(rs) - 1), key).lines + 1]

roundedBucket(b) == [b EXCEPT !.total = brRound(b.total)]

\* b placed after the buckets whose |total| is not smaller
RECURSIVE insertBucket(_, _)
insertBucket(sorted, b) ==
    IF sorted = <<>> THEN <<b>>
    ELSE IF NLt(Abs(Head(sorted).total), Abs(b.total)) THEN <<b>> \o sorted
    ELSE <<Head(sorted)>> \o insertBucket(Tail(sorted), b)

RECURSIVE sortedBuckets(_, _, _)
sortedBuckets(sorted, rs, keys) ==
    IF keys = <<>> THEN sorted
    ELSE sortedBuckets(insertBucket(sorted, roundedBucket(bucketOf(rs, Head(keys)))),
                       rs, Tail(keys))

computeBuckets(rs) == sortedBuckets(<<>>, rs, bucketKeysOf(rs, {}))

RECURSIVE sumMatchAbs(_, _, _)
sumMatchAbs(rs, patterns, prefer) ==
    IF rs = <<>> THEN Zero
    ELSE IF /\ normalizeText(Head(rs).description) # ""
            /\ matchAny(normalizeText(Head(rs).description), patterns)
    THEN NAdd(Abs(dreValue(Head(rs), prefer)), sumMatchAbs(Tail(rs), patterns, prefer))
    ELSE sumMatchAbs(Tail(rs), patterns, prefer)

sumByMatchAbs(rs, patterns, prefer) == brRound(sumMatchAbs(rs, patterns, prefer))

RECURSIVE sumBucketAbs(_, _)
sumBucketAbs(rs, keys) ==
    IF rs = <<>> THEN Zero
    ELSE IF bucketKey(Head(rs).classification) \in keys
    THEN NAdd(Abs(bucketValue(Head(rs))), sumBucketAbs(Tail(rs), keys))
    ELSE sumBucketAbs(Tail(rs), keys)

sumByBucketAbs(rs, keys) == brRound(sumBucketAbs(rs, keys))

\* prefixes.some(...): every prefix of PLAN_PREFIX is "3." and more
prefixHit(r, prefixes) ==
    \E pp \in prefixes :
        \/ StartsWith(Trim(Str(r.classification)), pp)
        \/ StartsWith(normalizeClassification(r.classification), pp)

RECURSIVE sumPrefixAbs(_, _, _)
sumPrefixAbs(rs, prefixes, prefer) ==
    IF rs = <<>> THEN Zero
    ELSE IF prefixHit(Head(rs), prefixes)
    THEN NAdd(Abs(dreValue(Head(rs), prefer)), sumPrefixAbs(Tail(rs), prefixes, prefer))
    ELSE sumPrefixAbs(Tail(rs), prefixes, prefer)

sumByClassificationPrefixAbs(rs, prefixes, prefer) ==
    brRound(sumPrefixAbs(rs, prefixes, prefer))

pct(num, den) == IF IsZero(den) THEN NULL ELSE pctOf(num, den)

orElse(first, second) == IF IsZero(first) THEN second ELSE first

\* variant: the description patterns are tried before the classification prefixes
receitaBrutaOf_matchFirst(rs) ==
    orElse(orElse(sumByMatchAbs(rs, RX_receitaBruta, "credito"),
                  sumByClassificationPrefixAbs(rs, PLAN_PREFIX.receita_bruta, "credito")),
           sumByBucketAbs(rs, {"3.1"}))

receitaBrutaOf(rs) ==
    orElse(orElse(sumByClassificationPrefixAbs(rs, PLAN_PREFIX.receita_bruta, "credito"),
                  sumByMatchAbs(rs, RX_receitaBruta, "credito")),
           sumByBucketAbs(rs, {"3.1"}))
deducoesOf(rs) ==
    orElse(orElse(sumByClassificationPrefixAbs(rs, PLAN_PREFIX.deducoes, "debito"),
                  sumByMatchAbs(rs, RX_deducoes, "debito")),
           sumByBucketAbs(rs, {"3.2"}))
cmvCpvOf(rs) ==
    orElse(orElse(sumByClassificationPrefixAbs(rs, PLAN_PREFIX.cmv_cpv, "debito"),
                  sumByMatchAbs(rs, RX_cmvCpv, "debito")),
           sumByBucketAbs(rs, {"3.3", "3.4", "3.5"}))
despesasAdminOf(rs) ==
    orElse(orElse(sumByClassificationPrefixAbs(rs, PLAN_PREFIX.despesas_admin, "debito"),
                  sumByMatchAbs(rs, RX_despesasAdmin, "debito")),
           sumByBucketAbs(rs, {"3.7", "3.8"}))

receitaLiquidaOf(matched, receita_bruta, deducoes) ==
    IF IsZero(matched) /\ ~IsZero(receita_bruta)
    THEN brRound(NSub(receita_bruta, deducoes)) ELSE matched

\* variant: the difference is taken also when net revenue is zero
lucroBrutoOf_alsoOfZero(receita_liquida, cmv_cpv) == brRound(NSub(receita_liquida, cmv_cpv))

lucroBrutoOf(receita_liquida, cmv_cpv) ==
    IF IsZero(receita_liquida) THEN NULL ELSE brRound(NSub(receita_liquida, cmv_cpv))

resultadoOperacionalOf(lucro_bruto, despesas_admin, despesas_comerciais, outras_despesas) ==
    IF lucro_bruto = NULL THEN NULL
    ELSE brRound(NSub(NSub(NSub(lucro_bruto, despesas_admin), despesas_comerciais),
                      outras_despesas))

Positive(x) == NLt(Zero, x)

\* variant: any one positive figure is enough
confident_either(rb, rl, cmv, adm, com, outras) ==
    \/ Positive(rb) \/ Positive(rl)
    \/ Positive(cmv) \/ Positive(adm) \/ Positive(com) \/ Positive(outras)

\* (receita_bruta > 0 || receita_liquida > 0) && (cmv_cpv > 0 || despesas_admin > 0 ||
\* despesas_comerciais > 0 || outras_despesas > 0)
confident(rb, rl, cmv, adm, com, outras) ==
    /\ Positive(rb) \/ Positive(rl)
    /\ Positive(cmv) \/ Positive(adm) \/ Positive(com) \/ Positive(outras)

\* the figures of a period before the gate
figures(rl, rb, ded, cmv, adm, com, outras, lucro_bruto, resultado_operacional) ==
    [receita_liquida |-> rl, receita_bruta |-> rb, deducoes |-> ded, cmv_cpv |-> cmv,
     despesas_admin |-> adm, despesas_comerciais |-> com, outras_despesas |-> outras,
     lucro_bruto |-> lucro_bruto, resultado_operacional |-> resultado_operacional,
     confident |-> confident(rb, rl, cmv, adm, com, outras)]

figuresWithProfit(rl, rb, ded, cmv, adm, com, outras, lucro_bruto) ==
    figures(rl, rb, ded, cmv, adm, com, outras, lucro_bruto,
            resultadoOperacionalOf(lucro_bruto, adm, com, outras))

figuresWithRevenue(rl, rb, ded, cmv, adm, com, outras) ==
    figuresWithProfit(rl, rb, ded, cmv, adm, com, outras, lucroBrutoOf(rl, cmv))

figuresWithSums(rs, rb, ded, cmv, adm) ==
    figuresWithRevenue(receitaLiquidaOf(sumByMatchAbs(rs, RX_receitaLiquida, "credito"), rb, ded),
                       rb, ded, cmv, adm,
                       sumByMatchAbs(rs, RX_despesasComerciais, "debito"),
                       sumByMatchAbs(rs, RX_outrasDespesas, "debito"))

figuresOf(rs) ==
    figuresWithSums(rs, receitaBrutaOf(rs), deducoesOf(rs), cmvCpvOf(rs), despesasAdminOf(rs))

NoteInsufficient(period) ==
    "Periodo " \o period
        \o ": KPIs de DRE sem validacao suficiente no balancete (evitando fallback)."
NoteNoDre ==
    "Nao foram detectadas linhas de DRE (classe 3.x) no balancete. "
        \o "KPIs de Receita/Lucro podem ficar indisponiveis."

\* the TccKpiPeriod returned for the period
gatedPeriod(period, f, buckets) ==
    [period |-> period,
     receita_liquida |-> IF f.confident THEN f.receita_liquida ELSE Zero,
     receita_bruta |-> IF f.confident THEN f.receita_bruta ELSE Zero,
     deducoes |-> IF f.confident THEN f.deducoes ELSE Zero,
     cmv_cpv |-> IF f.confident THEN f.cmv_cpv ELSE Zero,
     despesas_admin |-> IF f.confident THEN f.despesas_admin ELSE Zero,
     despesas_comerciais |-> IF f.confident THEN f.despesas_comerciais ELSE Zero,
     outras_despesas |-> IF f.confident THEN f.outras_despesas ELSE Zero,
     lucro_bruto |-> IF f.confident THEN f.lucro_bruto ELSE NULL,
     resultado_operacional |-> IF f.confident THEN f.resultado_operacional ELSE NULL,
     lucro_liquido |-> IF f.confident THEN f.resultado_operacional ELSE NULL,
     margem_bruta_pct |->
         IF f.confident /\ f.lucro_bruto # NULL
         THEN pct(f.lucro_bruto, f.receita_liquida) ELSE NULL,
     margem_liquida_pct |->
         IF f.confident /\ f.resultado_operacional # NULL
         THEN pct(f.resultado_operacional, f.receita_liquida) ELSE NULL,
     buckets |-> buckets,
     notes |-> IF f.confident THEN <<>> ELSE <<NoteInsufficient(period)>>]

tccPeriod(period, rs) == gatedPeriod(period, figuresOf(rs), computeBuckets(rs))

dreRows(base) == SelectSeq(base, LAMBDA x : x.period # "" /\ isDreRelevantRow(x))

RECURSIVE tccPeriods(_, _)
tccPeriods(rs, periods) ==
    IF periods = <<>> THEN <<>>
    ELSE <<tccPeriod(Head(periods), rowsOfPeriod(rs, Head(periods)))>>
         \o tccPeriods(rs, Tail(periods))

tccResult(results) ==
    [byPeriod |-> [i \in DOMAIN results |->
                     [k \in DOMAIN results[i] \ {"notes"} |-> results[i][k]]],
     notes |-> notesOf(results) \o (IF results = <<>> THEN <<NoteNoDre>> ELSE <<>>)]

tccOfDreRows(rs) == tccResult(tccPeriods(rs, periodsOf(rs, {})))

computeTccKpisFromBase(base) == tccOfDreRows(dreRows(base))

(***************************************************************************)
(* Specification of the DRE figures: one call of computeTccKpisFromBase on *)
(* a normalized base of up to MaxKpiRows rows of two periods.              *)
(***************************************************************************)
MaxKpiRows == 3         \* bound: rows of the normalized base

Balance(text) == IF text = "" THEN NULL ELSE parseMoneyBR(text)

KpiRow(period, classification, description, group, sa, deb, cred) ==
    Row(period, NullStr, classification, description, group,
        Balance(sa), NULL, Balance(deb), Balance(cred), NullStr)

KpiRows == {
    KpiRow("2024", "3.1", "Receita Bruta de Vendas", "DRE", "900.000,00", "", "900.000,00"),
    KpiRow("2024", "3.2", "Deducoes", "DRE", "150.000,00", "150.000,00", ""),
    KpiRow("2024", "3.3", "CMV", "DRE", "400.000,00", "400.000,00", ""),
    KpiRow("2024", "3.9", "Despesas Financeiras", "DRE", "20.000,00", "", ""),
    KpiRow("2024", NullStr, "Receita Liquida", "DRE", "800.000,00", "", ""),
    KpiRow("2024", NullStr, "Faturamento Bruto", "DRE", "50.000,00", "", ""),
    KpiRow("2024", "1.1", "Caixa", "ATIVO", "800.000,00", "", ""),
    KpiRow("2023", "3.1", "Vendas", "DRE", "500.000,00", "", ""),
    KpiRow("2023", "3.2", "Impostos", "DRE", "500.000,00", "", ""),
    KpiRow("2023", "3.7", "Salarios", "DRE", "-50.000,00", "", "")
}

InitKpi ==
    /\ pc = "call"
    /\ inp \in [base : DistinctSeqs(KpiRows, MaxKpiRows)]
    /\ out = NULL
    /\ IdleParser

CallComputeTccKpisFromBase ==
    /\ pc = "call"
    /\ out' = computeTccKpisFromBase(inp.base)
    /\ pc' = "computed"
    /\ UNCHANGED <<inp, parserVars>>

NextKpi == CallComputeTccKpisFromBase

SpecKpi == InitKpi /\ [][NextKpi]_vars

\* the income-statement rows of the period in the base handed to the call
DreRowsOf(p) == rowsOfPeriod(dreRows(inp.base), p)

DrePeriods == {inp.base[i].period : i \in {j \in DOMAIN inp.base : isDreRelevantRow(inp.base[j])}}

\* gross and net revenue are both zero, or every cost and expense figure is
NoRevenueOrNoCost(f) ==
    \/ IsZero(f.receita_bruta) /\ IsZero(f.receita_liquida)
    \/ /\ IsZero(f.cmv_cpv) /\ IsZero(f.despesas_admin)
       /\ IsZero(f.despesas_comerciais) /\ IsZero(f.outras_despesas)

\* every amount reported for the period is 0, every result and margin null
AllFiguresEmpty(p) ==
    /\ IsZero(p.receita_liquida) /\ IsZero(p.receita_bruta) /\ IsZero(p.deducoes)
    /\ IsZero(p.cmv_cpv) /\ IsZero(p.despesas_admin)
    /\ IsZero(p.despesas_comerciais) /\ IsZero(p.outras_despesas)
    /\ p.lucro_bruto = NULL /\ p.resultado_operacional = NULL /\ p.lucro_liquido = NULL
    /\ p.margem_bruta_pct = NULL /\ p.margem_liquida_pct = NULL

InsufficientNotes(p) ==
    {n \in DOMAIN out.notes : out.notes[n] = NoteInsufficient(p)}

RECURSIVE FirstNonZero(_)
FirstNonZero(values) ==
    IF Len(values) = 1 \/ ~IsZero(Head(values)) THEN Head(values)
    ELSE FirstNonZero(Tail(values))

\* the three strategies for a figure, in the order of the cascade
Strategies(rs, prefixes, patterns, prefer) ==
    <<sumByClassificationPrefixAbs(rs, prefixes, prefer),
      sumByMatchAbs(rs, patterns, prefer),
      sumByBucketAbs(rs, prefixes)>>

GrossRevenueStrategies(p) == Strategies(DreRowsOf(p), {"3.1"}, RX_receitaBruta, "credito")
DeductionsStrategies(p) == Strategies(DreRowsOf(p), {"3.2"}, RX_deducoes, "debito")
CostOfGoodsStrategies(p) == Strategies(DreRowsOf(p), {"3.3", "3.4", "3.5"}, RX_cmvCpv, "debito")
AdminStrategies(p) == Strategies(DreRowsOf(p), {"3.7", "3.8"}, RX_despesasAdmin, "debito")

\* the period is reported with figures (it passed the gate)
PassedGate(k) == InsufficientNotes(out.byPeriod[k].period) = {}

\* C11: after computeTccKpisFromBase, for every reported period that passed the
\* gate, each of gross revenue, deductions, cost of goods and administrative
\* expense is the result of the first of the three strategies (sum by
\* classification prefix, sum by description pattern, sum by two-level
\* bucket), in this order, that is not zero, and 0 when all three are zero.
C11_CascadeFirstNonZero ==
    pc = "computed" =>
        \A k \in DOMAIN out.byPeriod :
            PassedGate(k) =>
                /\ out.byPeriod[k].receita_bruta
                       = FirstNonZero(GrossRevenueStrategies(out.byPeriod[k].period))
                /\ out.byPeriod[k].deducoes
                       = FirstNonZero(DeductionsStrategies(out.byPeriod[k].period))
                /\ out.byPeriod[k].cmv_cpv
                       = FirstNonZero(CostOfGoodsStrategies(out.byPeriod[k].period))
                /\ out.byPeriod[k].despesas_admin
                       = FirstNonZero(AdminStrategies(out.byPeriod[k].period))

\* a period that passed the gate has a non-zero prefix sum for gross revenue
\* and a different non-zero pattern sum, and reports the prefix sum
C11_Witness ==
    /\ pc = "computed"
    /\ \E k \in DOMAIN out.byPeriod :
          /\ PassedGate(k)
          /\ ~IsZero(GrossRevenueStrategies(out.byPeriod[k].period)[1])
          /\ ~IsZero(GrossRevenueStrategies(out.byPeriod[k].period)[2])
          /\ GrossRevenueStrategies(out.byPeriod[k].period)[1]
                 # GrossRevenueStrategies(out.byPeriod[k].period)[2]
          /\ out.byPeriod[k].receita_bruta = GrossRevenueStrategies(out.byPeriod[k].period)[1]

(***************************************************************************)
(* analyzeEngine.ts: sortPeriodLabels applied to lists of period labels.   *)
(***************************************************************************)
MaxLabels == 3

Labels == {"2023", "2024", "T1/2024", "T2/2024", "T4/2023", "2024-03", "2023-12", "abc", "jan24"}

ExampleLabels == <<"T2/2024", "2024-03", "2023", "T1/2024">>

LabelLists == UNION {[1..n -> Labels] : n \in 0..MaxLabels} \cup {ExampleLabels}

InitSort ==
    /\ pc = "call"
    /\ inp \in [labels : LabelLists]
    /\ out = NULL
    /\ IdleParser

CallSortPeriodLabels ==
    /\ pc = "call"
    /\ pc' = "sorted"
    /\ out' = sortPeriodLabels(inp.labels)
    /\ UNCHANGED <<inp, parserVars>>

NextSort == CallSortPeriodLabels

SpecSort == InitSort /\ [][NextSort]_vars

KindOf(label) == parsePeriod(label).kind

\* year labels first, then quarters, then months
KindBefore(k1, k2) ==
    \/ k1 = "y" /\ k2 \in {"q", "m"}
    \/ k1 = "q" /\ k2 = "m"

\* (year, index) of a is not after that of b
NotAfter(a, b) ==
    \/ parsePeriod(a).y < parsePeriod(b).y
    \/ parsePeriod(a).y = parsePeriod(b).y /\ parsePeriod(a).n <= parsePeriod(b).n

\* b holds the elements of a, each as many times
SameElements(a, b) ==
    /\ Len(a) = Len(b)
    /\ \A x \in {a[i] : i \in DOMAIN a} :
          Cardinality({i \in DOMAIN a : a[i] = x}) = Cardinality({i \in DOMAIN b : b[i] = x})

\* C12: sortPeriodLabels returns the labels of its argument with every year
\* label before every quarter label and every quarter label before every
\* year-month label, and the labels of one kind in the order of (year, index);
\* the list T2/2024, 2024-03, 2023, T1/2024 becomes 2023, T1/2024, T2/2024,
\* 2024-03.
C12_KindThenChronological ==
    pc = "sorted" =>
        /\ SameElements(inp.labels, out)
        /\ \A i, j \in DOMAIN out :
              (i < j /\ KindOf(out[i]) # "raw" /\ KindOf(out[j]) # "raw") =>
                  /\ ~KindBefore(KindOf(out[j]), KindOf(out[i]))
                  /\ KindOf(out[i]) = KindOf(out[j]) => NotAfter(out[i], out[j])
        /\ inp.labels = ExampleLabels => out = <<"2023", "T1/2024", "T2/2024", "2024-03">>

\* a list with a month, then a quarter, then a year, all of different years
\* with the year label the latest, has been sorted by kind
C12_Witness ==
    /\ pc = "sorted"
    /\ inp.labels = <<"2023-12", "T4/2023", "2024">>
    /\ out = <<"2024", "T4/2023", "2023-12">>

\* the example list has been sorted
C12_WitnessExample ==
    /\ pc = "sorted"
    /\ inp.labels = ExampleLabels

\* C13: in the list returned by sortPeriodLabels every label that is not a
\* year, a quarter or a year-month comes before every label that is one, and
\* the labels that are none of them are in lexicographic order, also when the
\* list holds no other label.
C13_RawFirstLexicographic ==
    pc = "sorted" =>
        \A i, j \in DOMAIN out :
            (i < j /\ KindOf(out[j]) = "raw") =>
                /\ KindOf(out[i]) = "raw"
                /\ localeCompare(out[i], out[j]) <= 0

\* C13 as the code has it: in the list returned by sortPeriodLabels every
\* label that is not a year, a quarter or a year-month comes after every label
\* that is one, and these labels are in the order of localeCompare among
\* themselves; a list that holds no year, quarter or year-month label is
\* returned as it was given.
C13_RawLastOrUnchanged ==
    pc = "sorted" =>
        IF \A i \in DOMAIN inp.labels : KindOf(inp.labels[i]) = "raw"
        THEN out = inp.labels
        ELSE \A i, j \in DOMAIN out :
                 (i < j /\ KindOf(out[i]) = "raw") =>
                     /\ KindOf(out[j]) = "raw"
                     /\ localeCompare(out[i], out[j]) <= 0

\* two unparsed labels around a year label have been moved behind it, in
\* lexicographic order
C13_Witness ==
    /\ pc = "sorted"
    /\ inp.labels = <<"jan24", "2024", "abc">>
    /\ out = <<"2024", "abc", "jan24">>

\* inputs of the filter: rows with each shape of balance, and three totals
MaxFilterRows == 2

FilterRow(description, sa) ==
    Row("2024", NullStr, "1.1", description, "ATIVO", sa, NULL, NULL, NULL, NullStr)

OutlierRows == {
    FilterRow("Sem saldo", NULL),
    FilterRow("Zero", Zero),
    FilterRow("Caixa", Amt("500,00")),
    FilterRow("Bancos", Amt("1.049,99")),
    FilterRow("Estoques", Amt("1.050,01")),
    FilterRow("Credores", Amt("-2.000,00")),
    FilterRow("Imobilizado", Amt("1.000.000.000.000,00")),
    FilterRow("Clientes", parseMoneyBR("500,00")),
    FilterRow("Veiculos", parseMoneyBR("2.000,00")),
    FilterRow("Terrenos", parseMoneyBR("2.000.000.000.000,00")),
    FilterRow("Nulo", parseMoneyBR("0,00"))
}

AssetTotals == {Zero, Amt("1.000,00"), Amt("300.000.000,00")}

InitOutlier ==
    /\ pc = "call"
    /\ inp \in [rows : UNION {[1..n -> OutlierRows] : n \in 0..MaxFilterRows},
                ativoTotal : AssetTotals]
    /\ out = NULL
    /\ IdleParser

CallFilterOutliersForRankings ==
    /\ pc = "call"
    /\ pc' = "filtered"
    /\ out' = filterOutliersForRankings(inp.rows, inp.ativoTotal)
    /\ UNCHANGED <<inp, parserVars>>

NextOutlier == CallFilterOutliersForRankings

SpecOutlier == InitOutlier /\ [][NextOutlier]_vars

\* the current balance of a row as an amount: the number, or the value of
\* the parsed token; 0 when the column is empty
CurrentBalance(r) ==
    IF r.saldoAtual = NULL THEN Zero
    ELSE IF IsNumber(r.saldoAtual) THEN r.saldoAtual
    ELSE r.saldoAtual.value

Retained(r) == \E i \in DOMAIN out : out[i] = r

InputRows == {inp.rows[i] : i \in DOMAIN inp.rows}

OverCap(r) == NGt(NMulS(Abs(CurrentBalance(r)), 100), NMulS(inp.ativoTotal, 105))

\* C14: filterOutliersForRankings with an assets total above 0 retains no row
\* whose absolute current balance exceeds 1.05 times the total, retains no
\* row whose current balance is zero, and retains every row whose current
\* balance is not zero and at most 1.05 times the total in absolute value.
C14_RetainedIffUnderCap ==
    (pc = "filtered" /\ NGt(inp.ativoTotal, Zero)) =>
        \A r \in InputRows :
            /\ OverCap(r) => ~Retained(r)
            /\ IsZero(CurrentBalance(r)) => ~Retained(r)
            /\ (~IsZero(CurrentBalance(r)) /\ ~OverCap(r)) => Retained(r)

\* C15: filterOutliersForRankings with an assets total of 0 retains every row
\* whose current balance is not zero and below 1e12 in absolute value, and
\* drops every row whose absolute current balance is 1e12 or more.
C15_RetainedIffBelowTrillion ==
    (pc = "filtered" /\ IsZero(inp.ativoTotal)) =>
        \A r \in InputRows :
            /\ (~IsZero(CurrentBalance(r)) /\ NLt(Abs(CurrentBalance(r)), TRILLION))
                   => Retained(r)
            /\ NGe(Abs(CurrentBalance(r)), TRILLION) => ~Retained(r)

\* the rows of the analysis that the claim about the rankings speaks of: rows
\* classified in the group, without "total" in the description, with a parsed
\* current balance other than zero, that the outlier filter lets through
PassesFilter(r) ==
    \E j \in DOMAIN safeRowsOf(r, out.baseNormalizada, out.kpisByPeriod) :
        safeRowsOf(r, out.baseNormalizada, out.kpisByPeriod)[j] = r

Qualified(grp) ==
    {r \in {out.baseNormalizada[i] : i \in DOMAIN out.baseNormalizada} :
        /\ groupFromClassification(r.classification) = grp
        /\ ~Includes(ToUpperCase(Str(r.description)), "TOTAL")
        /\ ~IsZero(CurrentBalance(r))
        /\ PassesFilter(r)}

EntryOf(r) ==
    [code |-> r.code, description |-> r.description,
     value |-> brRound(CurrentBalance(r)), period |-> r.period]

TopOf(grp) == IF grp = "ATIVO" THEN out.rankings.topSaldosAtivo ELSE out.rankings.topSaldosPassivo

Listed(list, e) == \E i \in DOMAIN list : list[i] = e

\* C16: after computeFromBalancetes the list of top asset balances (and the
\* list of top liability balances) holds entries of qualified rows only, holds
\* every qualified row unless it already holds 10 entries of at least that
\* absolute balance, and so is not empty when a qualified row exists.
C16_TopBalancesListed ==
    pc = "analyzed" =>
        \A grp \in {"ATIVO", "PASSIVO"} :
            /\ \A i \in DOMAIN TopOf(grp) : \E r \in Qualified(grp) : TopOf(grp)[i] = EntryOf(r)
            /\ Len(TopOf(grp)) <= 10
            /\ \A r \in Qualified(grp) :
                  \/ Listed(TopOf(grp), EntryOf(r))
                  \/ /\ Len(TopOf(grp)) = 10
                     /\ \A i \in DOMAIN TopOf(grp) :
                           NGe(Abs(TopOf(grp)[i].value), Abs(EntryOf(r).value))
            /\ Qualified(grp) # {} => TopOf(grp) # <<>>

FirstPeriod == out.kpisByPeriod[1].period
LastPeriod == out.kpisByPeriod[Len(out.kpisByPeriod)].period

BaseRows == {out.baseNormalizada[i] : i \in DOMAIN out.baseNormalizada}

\* the rows of the account in the period that the outlier filter lets through
AccountRows(key, period) ==
    {i \in DOMAIN out.baseNormalizada :
        /\ out.baseNormalizada[i].period = period
        /\ mkKey(out.baseNormalizada[i].code, out.baseNormalizada[i].description) = key
        /\ PassesFilter(out.baseNormalizada[i])}

\* the current balance of the account in the period: that of its last row, 0
\* without a row
BalanceIn(key, period) ==
    IF AccountRows(key, period) = {} THEN Zero
    ELSE brRound(CurrentBalance(out.baseNormalizada[
             CHOOSE i \in AccountRows(key, period) : \A j \in AccountRows(key, period) : j <= i]))

DeltaOf(key) == brRound(NSub(BalanceIn(key, LastPeriod), BalanceIn(key, FirstPeriod)))

\* C17: when the first and the last period of an analysis differ, topVariacoes
\* has at most 15 entries with different keys, each with the delta of its
\* account between the two periods and none with an absolute delta below
\* 0.01, in descending order of absolute delta; and an account whose current
\* balance changed by 0.01 or more, and whose rows pass the outlier filter, is
\* in the list unless the list holds 15 entries of at least that delta.
C17_VarianceListed ==
    (pc = "analyzed" /\ FirstPeriod # LastPeriod) =>
        /\ Len(out.rankings.topVariacoes) <= 15
        /\ \A i, j \in DOMAIN out.rankings.topVariacoes :
              /\ i # j => out.rankings.topVariacoes[i].key # out.rankings.topVariacoes[j].key
              /\ i < j => NGe(Abs(out.rankings.topVariacoes[i].delta),
                              Abs(out.rankings.topVariacoes[j].delta))
        /\ \A i \in DOMAIN out.rankings.topVariacoes :
              /\ out.rankings.topVariacoes[i].delta = DeltaOf(out.rankings.topVariacoes[i].key)
              /\ NGe(Abs(out.rankings.topVariacoes[i].delta), Cents(1))
        /\ \A r \in BaseRows :
              (PassesFilter(r) /\ NGe(Abs(DeltaOf(mkKey(r.code, r.description))), Cents(1))) =>
                  \/ \E i \in DOMAIN out.rankings.topVariacoes :
                        out.rankings.topVariacoes[i].key = mkKey(r.code, r.description)
                  \/ /\ Len(out.rankings.topVariacoes) = 15
                     /\ \A i \in DOMAIN out.rankings.topVariacoes :
                           NGe(Abs(out.rankings.topVariacoes[i].delta),
                               Abs(DeltaOf(mkKey(r.code, r.description))))

\* the monetary columns of a row
MoneyFields(row) == <<row.saldoAtual, row.saldoAnterior, row.debito, row.credito>>

\* the line as the loop reads it
CleanedLine(raw) == unglueMoneyTokens(cleanSpaces(raw))

TokenValues(line) == {parseMoneyBR(moneyMatches(line)[i]) : i \in DOMAIN moneyMatches(line)}

\* the row has a monetary column filled, its rawLine is one of the first n
\* lines of the text as the loop reads them, and its filled columns hold
\* parsed tokens of that rawLine
RowComesFromLines(row, n) ==
    /\ \E c \in 1..4 : MoneyFields(row)[c] # NULL
    /\ \E i \in 1..n : row.rawLine = CleanedLine(lines[i])
    /\ \E values \in {TokenValues(row.rawLine)} :
          \A c \in 1..4 : MoneyFields(row)[c] # NULL => MoneyFields(row)[c] \in values

\* C18: every step of the line parser keeps the rows emitted so far, and every
\* row it emits has at least one monetary column filled, has as rawLine a line
\* of the text read so far (with its whitespace collapsed and its glued tokens
\* separated), and holds in every filled monetary column the parsed value of a
\* monetary token of that rawLine; no row is emitted without a source line.
C18_RowsComeFromLines ==
    [][/\ Len(rows') >= Len(rows)
       /\ SubSeq(rows', 1, Len(rows)) = rows
       /\ \A k \in (Len(rows) + 1)..Len(rows') :
             RowComesFromLines(rows'[k], Min2(pos' - 1, Len(lines)))]_vars

\* a row has been emitted whose rawLine differs from the line as given (glued
\* tokens were separated), with three columns filled and one empty
C18_Witness ==
    \E k \in DOMAIN rows :
        /\ \A i \in DOMAIN lines : rows[k].rawLine # lines[i]
        /\ rows[k].saldoAtual # NULL /\ rows[k].debito # NULL
        /\ rows[k].credito = NULL

\* the sum of the rows of the period that name net revenue in their description
MatchedNetRevenue(p) == sumByMatchAbs(DreRowsOf(p), RX_receitaLiquida, "credito")

\* the sum of the three expense figures of a reported period
Expenses(e) == NAdd(NAdd(e.despesas_admin, e.despesas_comerciais), e.outras_despesas)

DerivedFigures(e) ==
    /\ IsZero(MatchedNetRevenue(e.period))
           => e.receita_liquida = brRound(NSub(e.receita_bruta, e.deducoes))
    /\ e.lucro_bruto = (IF IsZero(e.receita_liquida) THEN NULL
                        ELSE brRound(NSub(e.receita_liquida, e.cmv_cpv)))
    /\ e.resultado_operacional = (IF e.lucro_bruto = NULL THEN NULL
                                  ELSE brRound(NSub(e.lucro_bruto, Expenses(e))))
    /\ e.lucro_liquido = e.resultado_operacional
    /\ e.margem_bruta_pct = (IF IsZero(e.receita_liquida) THEN NULL
                             ELSE pct(e.lucro_bruto, e.receita_liquida))
    /\ e.margem_liquida_pct = (IF IsZero(e.receita_liquida) THEN NULL
                               ELSE pct(e.resultado_operacional, e.receita_liquida))

\* C19: for every reported period that passed the gate, net revenue is gross
\* revenue minus deductions when no description names it; gross profit is net
\* revenue minus cost of goods, and null when net revenue is zero; the
\* operating result and the net result are gross profit minus the sum of the
\* administrative, commercial and other expenses; each margin is its result
\* divided by net revenue, times 100, rounded to 2 decimals, and null when net
\* revenue is zero.
C19_DerivedFigures ==
    pc = "computed" =>
        \A k \in DOMAIN out.byPeriod : PassedGate(k) => DerivedFigures(out.byPeriod[k])

\* a period passed the gate with net revenue derived from gross revenue and
\* deductions, a cost of goods, and a gross margin that had to be rounded
C19_Witness ==
    /\ pc = "computed"
    /\ \E k \in DOMAIN out.byPeriod :
          /\ PassedGate(k)
          /\ IsZero(MatchedNetRevenue(out.byPeriod[k].period))
          /\ ~IsZero(out.byPeriod[k].deducoes)
          /\ ~IsZero(out.byPeriod[k].cmv_cpv)
          /\ out.byPeriod[k].margem_bruta_pct # NULL
          /\ out.byPeriod[k].margem_bruta_pct.mag[2] # 0

\* a period passed the gate with gross revenue equal to deductions: net revenue
\* is zero and the results and margins are null
C19_WitnessNull ==
    /\ pc = "computed"
    /\ \E k \in DOMAIN out.byPeriod :
          /\ PassedGate(k)
          /\ ~IsZero(out.byPeriod[k].receita_bruta)
          /\ IsZero(out.byPeriod[k].receita_liquida)
          /\ out.byPeriod[k].lucro_bruto = NULL
          /\ out.byPeriod[k].margem_liquida_pct = NULL

\* the line that the loop is about to read, as it reads it
NextLine == CleanedLine(lines[pos])

\* the loop is about to read a section header (a line that sets the column
\* order is taken as that before it is looked at as a header)
AtSectionHeader ==
    /\ pc = "loop" /\ pos <= Len(lines)
    /\ detectColumnOrderFromHeader(NextLine) = NullStr
    /\ detectSectionHeader(NextLine) # NullStr

\* the row emitted for a pending line at the header of a section
TotalRow(pend, section) ==
    [rawLine |-> pend.line, group |-> section, code |-> pend.code,
     classification |-> NullStr, description |-> "TOTAL " \o section,
     saldoAtual |-> pend.cols.saldoAtual, saldoAnterior |-> pend.cols.saldoAnterior,
     debito |-> pend.cols.debito, credito |-> pend.cols.credito]

\* C20: a step of the line parser that reads a section header while a pending
\* total line is stored emits exactly one row, the row of the pending line
\* with the group of the header and the description "TOTAL <group>", clears
\* the pending line and sets currentGroup to the group of the header; no row
\* is emitted for the header line.  Without a pending line the step emits no
\* row and sets currentGroup.
C20_HeaderFlushesPending ==
    [][AtSectionHeader =>
          /\ currentGroup' = detectSectionHeader(NextLine)
          /\ pendingTotalLine' = NULL
          /\ rows' = (IF pendingTotalLine = NULL THEN rows
                      ELSE Append(rows, TotalRow(pendingTotalLine,
                                                 detectSectionHeader(NextLine))))]_vars

\* a section header has just been read while a line was pending: the last row
\* is the total of the section, from a line other than the header
C20_Witness ==
    /\ pc = "loop" /\ pos > 2
    /\ detectSectionHeader(CleanedLine(lines[pos - 1])) = "ATIVO"
    /\ stored = <<CleanedLine(lines[pos - 2])>>
    /\ pendingTotalLine = NULL
    /\ currentGroup = "ATIVO"
    /\ rows # <<>>
    /\ rows[Len(rows)].description = "TOTAL ATIVO"
    /\ rows[Len(rows)].rawLine = CleanedLine(lines[pos - 2])

\* the loop is about to read a data line: not a column caption, not a section
\* header, not boilerplate, with two or more monetary tokens
AtDataLine ==
    /\ pc = "loop" /\ pos <= Len(lines)
    /\ detectColumnOrderFromHeader(NextLine) = NullStr
    /\ detectSectionHeader(NextLine) = NullStr
    /\ ~isHeaderLine(NextLine)
    /\ Len(moneyMatches(NextLine)) >= 2

\* the text of the line before its first monetary token
LabelOf(line) == cleanSpaces(SubSeq(line, 1, IndexOf(line, moneyMatches(line)[1]) - 1))

\* the label is a code of one to six digits and nothing else
BareCode(label) == Len(label) \in 1..6 /\ AllDigits(label)

\* the label gives a code, no classification, and no description or the code
\* again as description
CodeOnly(label) ==
    /\ preFields(label).code # NullStr
    /\ preFields(label).classification = NullStr
    /\ preFields(label).description \in {"", preFields(label).code}

\* C21: a step of the line parser that reads, while currentGroup is OUTROS, a
\* data line with a code, no classification, no (or trivial) description and
\* four or more monetary tokens stores the line as pendingTotalLine and emits
\* no row; a line made of a bare code and four monetary values is such a line.
C21_TotalLineStored ==
    [][(/\ AtDataLine
        /\ currentGroup = "OUTROS"
        /\ Len(moneyMatches(NextLine)) >= 4
        /\ (CodeOnly(LabelOf(NextLine)) \/ BareCode(LabelOf(NextLine))))
       => /\ pendingTotalLine' # NULL
          /\ pendingTotalLine'.line = NextLine
          /\ rows' = rows]_vars

(***************************************************************************)
(* The line parser on texts of labelled data lines, column captions and    *)
(* headers: the same loop as SpecParser, started on other lines.           *)
(***************************************************************************)
MaxLayoutLines == 3

L_CLASS_ONLY  == "2.1.1 Fornecedores 4.400.000,00 4.000.000,00"
L_NOT_ROOTED  == "11 12.1 Caixa 800,00 700,00"
L_ATIVO_DATA  == "Ativo Circulante 9.000,00 8.000,00"
L_ORDER_ALT   == "Saldo Anterior Debito Credito Saldo Atual"
L_ORDER_STD   == "Saldo Atual Saldo Anterior Debito Credito"
L_ORDER_OTHER == "Debito Credito Saldo Anterior Saldo Atual"
L_THREE       == "5 Bancos 1.000,00 2.000,00 3.000,00"
L_FIVE        == "6 1.2 Clientes 1.000,00 2.000,00 3.000,00 4.000,00 5.000,00"

LayoutLines ==
    {L_CLASS_ONLY, L_NOT_ROOTED, L_ATIVO_DATA, L_ORDER_ALT, L_ORDER_STD, L_ORDER_OTHER,
     L_THREE, L_FIVE, L_PASSIVO}

InitLayout ==
    /\ pc = "loop"
    /\ inp = NULL /\ out = NULL
    /\ lines \in DistinctSeqs(LayoutLines, MaxLayoutLines)
    /\ pos = 1
    /\ currentGroup = "OUTROS"
    /\ columnOrder = "SA_SANT_DEB_CRED"
    /\ pendingTotalLine = NULL
    /\ rows = <<>>
    /\ stored = <<>>

SpecLayout == InitLayout /\ [][NextParser]_vars

\* the step emits a row for the data line it reads
EmitsDataRow == AtDataLine /\ Len(rows') = Len(rows) + 1

\* the group of a classification: that of its first digit when the digit is 1,
\* 2 or 3 and a dot or nothing follows it, OUTROS otherwise
GroupOfRoot(cls) ==
    IF cls = NullStr \/ cls = "" THEN "OUTROS"
    ELSE IF ~(Len(cls) = 1 \/ Ch(cls, 2) = ".") THEN "OUTROS"
    ELSE IF Ch(cls, 1) = "1" THEN "ATIVO"
    ELSE IF Ch(cls, 1) = "2" THEN "PASSIVO"
    ELSE IF Ch(cls, 1) = "3" THEN "DRE"
    ELSE "OUTROS"

\* C22: a step of the line parser that emits the row of a data line gives it
\* the group currentGroup when that is ATIVO, PASSIVO or DRE, whatever the
\* classification of the row; when currentGroup is OUTROS the group is that of
\* the classification: of its first digit 1, 2 or 3 when a dot or the end of
\* the classification follows it, and OUTROS in every other case.
C22_GroupOfDataRow ==
    [][EmitsDataRow =>
          rows'[Len(rows')].group =
              (IF currentGroup \in {"ATIVO", "PASSIVO", "DRE"} THEN currentGroup
               ELSE GroupOfRoot(rows'[Len(rows')].classification))]_vars

\* a row whose classification starts with 1 but not with "1." was emitted in
\* group OUTROS, and after a PASSIVO header a row classified 1.2 was emitted
\* in group PASSIVO
C22_Witness ==
    /\ Len(rows) = 2
    /\ rows[1].classification = "12.1" /\ rows[1].group = "OUTROS"
    /\ rows[2].classification = "1.2" /\ rows[2].group = "PASSIVO"

\* the four monetary fields in the order of a column layout
FieldOrder(order) ==
    IF order = "SANT_DEB_CRED_SA"
    THEN <<"saldoAnterior", "debito", "credito", "saldoAtual">>
    ELSE <<"saldoAtual", "saldoAnterior", "debito", "credito">>

\* the trailing tokens of a line, four at most
TrailingTokens(line) == LastFour(moneyMatches(line))

\* the tokens laid on the end of an ordering: the i-th field of the ordering
\* takes a token only when enough tokens remain for the fields after it
FilledFromTheEnd(row, order, toks) ==
    \A i \in 1..4 :
        row[FieldOrder(order)[i]] =
            (IF i <= 4 - Len(toks) THEN NULL
             ELSE parseMoneyBR(toks[i - (4 - Len(toks))]))

\* C23: the row of a data line carries the trailing tokens of the line, four
\* at most, in the fields named by the current columnOrder; with two or three
\* tokens the earlier fields of the ordering are null and the tokens fill the
\* later ones in order.
C23_ColumnMapping ==
    [][EmitsDataRow =>
          FilledFromTheEnd(rows'[Len(rows')], columnOrder, TrailingTokens(NextLine))]_vars

\* the parser is about to read a line
AtLine == pc = "loop" /\ pos <= Len(lines)

\* the names appear in the line in this order, from left to right
LeftToRight(up, names) ==
    /\ \A i \in DOMAIN names : Includes(up, names[i])
    /\ \A i \in 1..(Len(names) - 1) : IndexOf(up, names[i]) < IndexOf(up, names[i + 1])

\* the layout that a header writes out: the word SALDO and the four column
\* names in the order of one of the two layouts
HeaderLayout(line) ==
    IF ~Includes(ToUpperCase(line), "SALDO") THEN NullStr
    ELSE IF LeftToRight(ToUpperCase(line), <<"ATUAL", "ANTERIOR", "DEBITO", "CREDITO">>)
    THEN "SA_SANT_DEB_CRED"
    ELSE IF LeftToRight(ToUpperCase(line), <<"ANTERIOR", "DEBITO", "CREDITO", "ATUAL">>)
    THEN "SANT_DEB_CRED_SA"
    ELSE NullStr

AtColumnOrderHeader == AtLine /\ HeaderLayout(NextLine) # NullStr

\* C24: parsing starts with the layout [current, prior, debit, credit]; a
\* column-order header sets columnOrder to the layout that it writes out and
\* changes nothing else, so it emits no row; no other step changes
\* columnOrder; and the row of a data line has its tokens mapped by the
\* columnOrder of the state in which the line is read.
C24_ColumnOrderState ==
    /\ columnOrder = "SA_SANT_DEB_CRED"
    /\ [][/\ AtColumnOrderHeader =>
                /\ columnOrder' = HeaderLayout(NextLine)
                /\ rows' = rows
                /\ pendingTotalLine' = pendingTotalLine
                /\ currentGroup' = currentGroup
          /\ ~AtColumnOrderHeader => columnOrder' = columnOrder
          /\ EmitsDataRow =>
                MoneyFields(rows'[Len(rows')]) =
                    MoneyFields(mapMoneyTokens(moneyMatches(NextLine), columnOrder))
          /\ (EmitsDataRow /\ Len(moneyMatches(NextLine)) >= 4) =>
                \A i \in 1..4 :
                    rows'[Len(rows')][FieldOrder(columnOrder)[i]] =
                        parseMoneyBR(TrailingTokens(NextLine)[i])]_vars

\* a header switched the layout to [prior, debit, credit, current], the next
\* line was mapped by it (its last token is the current balance), and a second
\* header switched the layout back
C24_Witness ==
    /\ Len(lines) = 3 /\ pos = 4
    /\ lines[1] = L_ORDER_ALT /\ lines[2] = L_FIVE /\ lines[3] = L_ORDER_STD
    /\ columnOrder = "SA_SANT_DEB_CRED"
    /\ Len(rows) = 1
    /\ rows[1].saldoAtual # NULL /\ rows[1].saldoAtual.raw = "5.000,00"
    /\ rows[1].saldoAnterior # NULL /\ rows[1].saldoAnterior.raw = "2.000,00"

\* the i-th line of the text is read as a section header
SectionHeaderAt(i) ==
    /\ detectColumnOrderFromHeader(CleanedLine(lines[i])) = NullStr
    /\ detectSectionHeader(CleanedLine(lines[i])) # NullStr

\* a section header is among the lines already processed
HeaderProcessed == \E i \in 1..(pos - 1) : SectionHeaderAt(i)

\* the step after the last line emits a row
EndFlushEmits == pc = "loop" /\ pos > Len(lines) /\ rows' # rows

\* C25: in every state after a section header has been processed,
\* currentGroup is not OUTROS and no line is pending; and when the step after
\* the last line emits a row, a row of group OUTROS for the stored total line,
\* no section header was processed at all, so none follows that line.
C25_NoPendingAfterHeader ==
    /\ [](HeaderProcessed => (currentGroup # "OUTROS" /\ pendingTotalLine = NULL))
    /\ [][EndFlushEmits =>
             /\ ~HeaderProcessed
             /\ Len(rows') = Len(rows) + 1
             /\ rows'[Len(rows')].group = "OUTROS"
             /\ stored # <<>> /\ rows'[Len(rows')].rawLine = stored[Len(stored)]]_vars

\* after the header ATIVO a line with a code and four values only was read:
\* it was emitted as a row of the section at once and nothing is pending
C25_Witness ==
    /\ pos = 3 /\ lines[1] = L_ATIVO /\ lines[2] = L_PENDING_1
    /\ currentGroup = "ATIVO" /\ pendingTotalLine = NULL
    /\ Len(rows) = 1 /\ rows[1].rawLine = L_PENDING_1 /\ rows[1].group = "ATIVO"

\* the input ended with a total line pending and no section header read: the
\* last row is that line in group OUTROS
C25_WitnessFlush ==
    /\ pc = "done" /\ ~HeaderProcessed /\ stored # <<>>
    /\ rows # <<>> /\ rows[Len(rows)].group = "OUTROS"
    /\ rows[Len(rows)].rawLine = stored[Len(stored)]

\* the position in the text of the line that a row was made from
SourceLine(row) == CHOOSE i \in DOMAIN lines : CleanedLine(lines[i]) = row.rawLine

\* C26: the rows returned for a text stand in the order of the lines they
\* were made from, also when a total line was stored as pending on the way.
C26_RowsInLineOrder ==
    pc = "done" =>
        \A i, j \in DOMAIN rows : i < j => SourceLine(rows[i]) < SourceLine(rows[j])

\* the loop is about to read a line with two or more monetary tokens that is
\* neither boilerplate nor a column-order header
AtMoneyLine ==
    /\ AtLine
    /\ Len(moneyMatches(NextLine)) >= 2
    /\ ~isHeaderLine(NextLine)
    /\ detectColumnOrderFromHeader(NextLine) = NullStr

\* C27: a line with two or more monetary tokens that is neither boilerplate
\* nor a column-order header is not taken as a section header: the step that
\* reads it leaves currentGroup alone and either emits the row of the line or
\* stores the line as pending, also when its label starts with ATIVO, PASSIVO
\* or DRE.
C27_MoneyLineYieldsRow ==
    [][AtMoneyLine =>
          /\ currentGroup' = currentGroup
          /\ \/ /\ Len(rows') = Len(rows) + 1
                /\ rows'[Len(rows')].rawLine = NextLine
             \/ /\ rows' = rows
                /\ pendingTotalLine' # NULL
                /\ pendingTotalLine'.line = NextLine]_vars

\* the first word of a label
FirstWord(label) ==
    IF Includes(label, " ") THEN SubSeq(label, 1, IndexOf(label, " ") - 1) ELSE label

\* a dotted classification whose first level is 1, 2 or 3: 2.1.1, 1.2, ...
RootedClassification(w) ==
    /\ Len(w) >= 3
    /\ Ch(w, 1) \in {"1", "2", "3"} /\ Ch(w, 2) = "."
    /\ IsDigit(Ch(w, Len(w)))
    /\ \A i \in 1..Len(w) : IsDigit(Ch(w, i)) \/ Ch(w, i) = "."
    /\ \A i \in 1..(Len(w) - 1) : ~(Ch(w, i) = "." /\ Ch(w, i + 1) = ".")

\* C28: while no section header has been read, a data line whose label starts
\* with a dotted classification of root 1, 2 or 3, with no code before it, is
\* emitted with that whole classification, without code, and in the group of
\* the first digit of the classification.
C28_ClassificationFirstLine ==
    [][(AtDataLine /\ currentGroup = "OUTROS"
            /\ RootedClassification(FirstWord(LabelOf(NextLine)))) =>
          /\ Len(rows') = Len(rows) + 1
          /\ rows'[Len(rows')].classification = FirstWord(LabelOf(NextLine))
          /\ rows'[Len(rows')].code = NullStr
          /\ rows'[Len(rows')].group = GroupOfRoot(FirstWord(LabelOf(NextLine)))]_vars

\* the rows parsed from the i-th input file
FileRows(i) == parseContabilRowsFromText(inp.files[i].text)

\* the entry stands for the i-th input file: it has the period of the file
\* and counts the rows of the file
EntryOfFile(entry, i) ==
    /\ entry.period = inp.files[i].period
    /\ entry.kpis.linhasDetectadas = Len(FileRows(i))

\* the ways of pairing the entries of a list with the input files, one to one
Pairings(n) == {f \in [1..n -> 1..n] : \A a, b \in 1..n : f[a] = f[b] => a = b}

\* C29: after the analysis, summary.rowsDetected is the number of rows of
\* baseNormalizada, which is the number of rows parsed from all the files; the
\* list of KPIs by period and each of the three series have one entry per
\* input file, and the entries of the list can be paired one to one with the
\* files so that each has the period and the row count of its file, also when
\* two files have the same period label.
C29_OneEntryPerFile ==
    pc = "analyzed" =>
        /\ out.summary.rowsDetected = Len(out.baseNormalizada)
        /\ Len(out.baseNormalizada) = rowsDetectedOf(perFileRawOf(inp.files))
        /\ Len(out.kpisByPeriod) = Len(inp.files)
        /\ Len(out.series.ativoTotal) = Len(inp.files)
        /\ Len(out.series.passivoTotal) = Len(inp.files)
        /\ Len(out.series.dreTotal) = Len(inp.files)
        /\ \E f \in Pairings(Len(inp.files)) :
              \A i \in DOMAIN inp.files : EntryOfFile(out.kpisByPeriod[f[i]], i)

(***************************************************************************)
(* Specification of the expense figures: one call of                       *)
(* computeTccKpisFromBase on a base of up to MaxExpenseRows rows taken     *)
(* from a catalogue of cost and expense accounts.                          *)
(***************************************************************************)
MaxExpenseRows == 3

ExpenseRows == {
    KpiRow("2024", "3.1", "Receita Bruta de Vendas", "DRE", "900.000,00", "", "900.000,00"),
    KpiRow("2024", "3.3", "CMV", "DRE", "400.000,00", "400.000,00", ""),
    KpiRow("2024", "3.7", "Despesas Administrativas", "DRE", "30.000,00", "30.000,00", ""),
    KpiRow("2024", "3.6", "Despesas Comerciais", "DRE", "10.000,00", "10.000,00", ""),
    KpiRow("2024", "3.9", "Custos Financeiros", "DRE", "5.000,00", "5.000,00", ""),
    KpiRow("2024", "3.6", "Marketing", "DRE", "7.000,00", "7.000,00", ""),
    KpiRow("2023", "3.1", "Vendas", "DRE", "500.000,00", "", ""),
    KpiRow("2023", "3.8", "Salarios", "DRE", "50.000,00", "50.000,00", "")
}

InitExpense ==
    /\ pc = "call"
    /\ inp \in [base : DistinctSeqs(ExpenseRows, MaxExpenseRows)]
    /\ out = NULL
    /\ IdleParser

SpecExpense == InitExpense /\ [][NextKpi]_vars

\* the description of the row matches one of the patterns
DescriptionHit(r, patterns) ==
    /\ normalizeText(r.description) # ""
    /\ matchAny(normalizeText(r.description), patterns)

\* the row is summed by the strategy that gives the figure its value: the
\* classification prefixes, else the description patterns, else the buckets
CascadeHit(rs, r, prefixes, patterns, keys) ==
    IF ~IsZero(sumByClassificationPrefixAbs(rs, prefixes, "debito"))
    THEN prefixHit(r, prefixes)
    ELSE IF ~IsZero(sumByMatchAbs(rs, patterns, "debito"))
    THEN DescriptionHit(r, patterns)
    ELSE bucketKey(r.classification) \in keys

\* the cost and expense figures of the period that the value of the row is
\* added to
FiguresOfRow(rs, r) ==
    IF IsZero(dreValue(r, "debito")) THEN {}
    ELSE (IF CascadeHit(rs, r, PLAN_PREFIX.cmv_cpv, RX_cmvCpv, {"3.3", "3.4", "3.5"})
          THEN {"cmv_cpv"} ELSE {})
         \cup (IF CascadeHit(rs, r, PLAN_PREFIX.despesas_admin, RX_despesasAdmin, {"3.7", "3.8"})
               THEN {"despesas_admin"} ELSE {})
         \cup (IF DescriptionHit(r, RX_despesasComerciais) THEN {"despesas_comerciais"} ELSE {})
         \cup (IF DescriptionHit(r, RX_outrasDespesas) THEN {"outras_despesas"} ELSE {})

\* C30: in every period whose figures are reported, the value of each
\* income-statement row is added to at most one of cmv_cpv, despesas_admin,
\* despesas_comerciais and outras_despesas, so that the operating result
\* subtracts it at most once.
C30_RowCountedOnce ==
    pc = "computed" =>
        \A k \in DOMAIN out.byPeriod :
            PassedGate(k) =>
                \A i \in DOMAIN DreRowsOf(out.byPeriod[k].period) :
                    Cardinality(FiguresOfRow(DreRowsOf(out.byPeriod[k].period),
                                             DreRowsOf(out.byPeriod[k].period)[i])) <= 1

====
